---- MODULE Spec2Model ----
(***************************************************************************)
(* friendly-traceback: the message-analyzer chain (message_analyzer.py)   *)
(* and the cause registry with its inference engine (info_specific.py),   *)
(* with the ImportError handler of runtime_errors/import_error.py.         *)
(*                                                                         *)
(* Python strings are TLA+ strings; the str methods the code uses (in,    *)
(* split, strip, count, startswith, isidentifier, slicing, re.search) are *)
(* computed on them character by character.  Python values that may be    *)
(* None, and results that may be an exception, are tagged records.        *)
(***************************************************************************)
EXTENDS Integers, Sequences, FiniteSets, TLC

VARIABLES
    MESSAGE_ANALYZERS,  \* message_analyzer.MESSAGE_ANALYZERS: list of functions
    loaded_analyzers,   \* number of decorated definitions of message_analyzer.py executed
    get_cause,          \* info_specific.get_cause: dict, exception name -> handler
    loaded_handlers,    \* number of decorated definitions of info_specific.py executed
    registrations,      \* history: every register(error_name)(function) applied, in order
    last,               \* the request just served: operation, arguments, outcome
    buffer,             \* FriendlyConsole.buffer: the lines of the command being entered
    counter,            \* FriendlyConsole.counter: the number of the next fake filename
    cache,              \* source_cache.cache: dict, filename -> source
    exited,             \* os._exit(1) has ended the process
    samples,            \* history: every push, with its filename, source and outcome
    pushed,             \* the push just served: arguments, state before, outcome
    locals,             \* FriendlyConsole.locals: dict, name -> value
    old_locals,         \* FriendlyConsole.old_locals: the copy of locals runcode keeps
    saved_builtins,     \* FriendlyConsole.saved_builtins: dict, name -> value
    annotations,        \* FriendlyConsole.locals["__annotations__"]: the hints, in order
    quiet,              \* history: the names warned about whose binding has not changed since
    checked             \* the runcode just served: arguments, state before, outcome

vars == <<MESSAGE_ANALYZERS, loaded_analyzers, get_cause, loaded_handlers,
          registrations, last, buffer, counter, cache, exited, samples, pushed,
          locals, old_locals, saved_builtins, annotations, quiet, checked>>

\* the names a FriendlyConsole has bound and the builtins it has saved
builtins_vars == <<locals, old_locals, saved_builtins, annotations, quiet, checked>>

\* the state of a FriendlyConsole and of the process it runs in
console_vars == <<buffer, counter, cache, exited, samples, pushed,
                  locals, old_locals, saved_builtins, annotations, quiet, checked>>

\* the state of message_analyzer and info_specific
registry_vars == <<MESSAGE_ANALYZERS, loaded_analyzers, get_cause, loaded_handlers,
                   registrations, last>>

(***************************************************************************)
(* Python values                                                           *)
(***************************************************************************)
None == [t |-> "None"]
Str(s) == [t |-> "str", s |-> s]
PyInt(n) == [t |-> "int", v |-> n]
Raise(e) == [t |-> "raise", exc |-> e]

\* the backquote character (U+0060) of the templates; the lexer reads a
\* backquote inside a string only when a quote closes it
BQ == SubSeq("`'", 1, 1)

IsNone(v) == v.t = "None"
IsRaise(v) == v.t = "raise"
\* bool(v) as used by "if cause:" and "if additional_response:"
Truthy(v) == v.t = "str" /\ v.s /= ""

\* str(v) as str.format renders a value
py_str(v) ==
    CASE v.t = "None" -> "None"
      [] v.t = "int" -> ToString(v.v)
      [] v.t = "str" -> v.s

(***************************************************************************)
(* str methods                                                             *)
(***************************************************************************)
Char(s, i) == SubSeq(s, i, i)

\* the characters of a string
Chars(s) == {Char(s, i) : i \in 1..Len(s)}

\* The strings of this module are made of the characters with a code up to
\* 255 and, beyond them, of the characters of the Basic Multilingual Plane
\* whose code has a low byte of 128 or more (the ones a string of TLA+ can
\* hold).  A character beyond the Basic Multilingual Plane is held as its
\* two surrogates, a high one followed by a low one, each with a low byte of
\* 128 or more: a str of Python holds it as one character, and so do the
\* operators below (point_at, point_len).  A surrogate that is not part of
\* such a pair is the lone surrogate of a str.  The tables of characters
\* below list, of these characters, the ones that the str methods and re of
\* the interpreter (Unicode 14.0.0) put in each class.

\* the surrogates: the k-th character of the text is made of the k-th high
\* surrogate (codes 55296 to 56319 with a low byte of 128 or more) and the
\* k-th low surrogate (codes 56320 to 57343 with a low byte of 128 or more)
Surrogates ==
    "𰂀𰒁𰢂𰲃𱂄𱒅𱢆𱲇𲂈𲒉𲢊𲲋𳂌𳒍𳢎𳲏𴂐𴒑𴢒𴲓𵂔𵒕𵢖𵲗𶂘𶒙𶢚𶲛𷂜𷒝𷢞𷲟𸂠𸒡𸢢𸲣𹂤𹒥𹢦𹲧𺂨𺒩𺢪𺲫𻂬𻒭𻢮𻲯𼂰𼒱𼢲𼲳𽂴𽒵𽢶𽲷𾂸𾒹𾢺𾲻𿂼𿒽𿢾𿲿񀃀񀓁񀣂񀳃񁃄񁓅񁣆񁳇񂃈񂓉񂣊񂳋񃃌񃓍񃣎񃳏񄃐񄓑񄣒񄳓񅃔񅓕񅣖񅳗񆃘񆓙񆣚񆳛񇃜񇓝񇣞񇳟񈃠񈓡񈣢񈳣񉃤񉓥񉣦񉳧񊃨񊓩񊣪񊳫񋃬񋓭񋣮񋳯񌃰񌓱񌣲񌳳񍃴񍓵񍣶񍳷񎃸񎓹񎣺񎳻񏃼񏓽񏣾񏳿񰆀񰖁񰦂񰶃񱆄񱖅񱦆񱶇񲆈񲖉񲦊񲶋񳆌񳖍񳦎񳶏񴆐񴖑񴦒񴶓񵆔񵖕񵦖񵶗񶆘񶖙񶦚񶶛񷆜񷖝񷦞񷶟񸆠񸖡񸦢񸶣񹆤񹖥񹦦񹶧񺆨񺖩񺦪񺶫񻆬񻖭񻦮񻶯񼆰񼖱񼦲񼶳񽆴񽖵񽦶񽶷񾆸񾖹񾦺񾶻񿆼񿖽񿦾񿶿򀇀򀗁򀧂򀷃򁇄򁗅򁧆򁷇򂇈򂗉򂧊򂷋򃇌򃗍򃧎򃷏򄇐򄗑򄧒򄷓򅇔򅗕򅧖򅷗򆇘򆗙򆧚򆷛򇇜򇗝򇧞򇷟򈇠򈗡򈧢򈷣򉇤򉗥򉧦򉷧򊇨򊗩򊧪򊷫򋇬򋗭򋧮򋷯򌇰򌗱򌧲򌷳򍇴򍗵򍧶򍷷򎇸򎗹򎧺򎷻򏇼򏗽򏧾򏷿򰊀򰚁򰪂򰺃򱊄򱚅򱪆򱺇򲊈򲚉򲪊򲺋򳊌򳚍򳪎򳺏򴊐򴚑򴪒򴺓򵊔򵚕򵪖򵺗򶊘򶚙򶪚򶺛򷊜򷚝򷪞򷺟򸊠򸚡򸪢򸺣򹊤򹚥򹪦򹺧򺊨򺚩򺪪򺺫򻊬򻚭򻪮򻺯򼊰򼚱򼪲򼺳򽊴򽚵򽪶򽺷򾊸򾚹򾪺򾺻򿊼򿚽򿪾򿺿󀋀󀛁󀫂󀻃󁋄󁛅󁫆󁻇󂋈󂛉󂫊󂻋󃋌󃛍󃫎󃻏󄋐󄛑󄫒󄻓󅋔󅛕󅫖󅻗󆋘󆛙󆫚󆻛󇋜󇛝󇫞󇻟󈋠󈛡󈫢󈻣󉋤󉛥󉫦󉻧󊋨󊛩󊫪󊻫󋋬󋛭󋫮󋻯󌋰󌛱󌫲󌻳󍋴󍛵󍫶󍻷󎋸󎛹󎫺󎻻󏋼󏛽󏫾󏻿󰎀󰞁󰮂󰾃󱎄󱞅󱮆󱾇󲎈󲞉󲮊󲾋󳎌󳞍󳮎󳾏󴎐󴞑󴮒󴾓󵎔󵞕󵮖󵾗󶎘󶞙󶮚󶾛󷎜󷞝󷮞󷾟󸎠󸞡󸮢󸾣󹎤󹞥󹮦󹾧󺎨󺞩󺮪󺾫󻎬󻞭󻮮󻾯󼎰󼞱󼮲󼾳󽎴󽞵󽮶󽾷󾎸󾞹󾮺󾾻󿎼󿞽󿮾󿾿􀏀􀟁􀯂􀿃􁏄􁟅􁯆􁿇􂏈􂟉􂯊􂿋􃏌􃟍􃯎􃿏􄏐􄟑􄯒􄿓􅏔􅟕􅯖􅿗􆏘􆟙􆯚􆿛􇏜􇟝􇯞􇿟􈏠􈟡􈯢􈿣􉏤􉟥􉯦􉿧􊏨􊟩􊯪􊿫􋏬􋟭􋯮􋿯􌏰􌟱􌯲􌿳􍏴􍟵􍯶􍿷􎏸􎟹􎯺􎿻􏏼􏟽􏯾􏿿"

\* the number of surrogates of each kind held (512)
SurrogateCount == Len(Surrogates) \div 2

HighSurrogate(k) == Char(Surrogates, 2 * k - 1)

LowSurrogate(k) == Char(Surrogates, 2 * k)

High == {HighSurrogate(k) : k \in 1..SurrogateCount}

Low == {LowSurrogate(k) : k \in 1..SurrogateCount}

\* the code of the k-th surrogate, counted from the first code of its kind
surrogate_code(k) == ((k - 1) \div 128) * 256 + 128 + ((k - 1) % 128)

\* the k of the surrogate with that code
surrogate_index(n) == (n \div 256) * 128 + (n % 256) - 127

\* the character at place i of s is the first half of a character beyond
\* the Basic Multilingual Plane
is_lead(s, i) ==
    /\ i < Len(s)
    /\ Char(s, i) \in High
    /\ Char(s, i + 1) \in Low

\* the character at place i of s is the second half of one
is_trail(s, i) == i > 1 /\ is_lead(s, i - 1)

\* the places that the character beginning at place i takes
point_len(s, i) == IF is_lead(s, i) THEN 2 ELSE 1

\* the character of the str that begins at place i
point_at(s, i) == SubSeq(s, i, i + point_len(s, i) - 1)

\* the places of s where a character beyond the Basic Multilingual Plane
\* begins
point_leads(s) == {i \in 1..Len(s) : is_lead(s, i)}

\* len(s): a character beyond the Basic Multilingual Plane counts once
str_len(s) == Len(s) - Cardinality(point_leads(s))

\* the place where the k-th character of a str begins, leads being the
\* places where its characters beyond the Basic Multilingual Plane begin:
\* each of them that comes before moves the place by one
point_place(k, leads) ==
    CHOOSE i \in k..(k + Cardinality(leads)) :
        /\ (i - 1) \notin leads
        /\ i - Cardinality({j \in leads : j < i}) = k

\* the place where the k-th character of the str begins
point_start(s, k) == point_place(k, point_leads(s))

\* s[i:] starts with sub (i is 1-based): the places of sub are those of s
\* from place i on, and sub neither begins nor ends inside a character of s
\* (a lone surrogate is not found inside a character beyond the Basic
\* Multilingual Plane)
str_startswith_at(s, sub, i) ==
    /\ i >= 1
    /\ i + Len(sub) - 1 <= Len(s)
    /\ SubSeq(s, i, i + Len(sub) - 1) = sub
    /\ ~is_trail(s, i)
    /\ ~is_trail(s, i + Len(sub))

str_startswith(s, sub) == str_startswith_at(s, sub, 1)

\* sub in s
str_contains(sub, s) ==
    \E i \in 1..(Len(s) - Len(sub) + 1) : str_startswith_at(s, sub, i)

\* s.find(sub, from), 1-based; 0 when absent
str_find(s, sub, from) ==
    LET hits == {i \in from..(Len(s) - Len(sub) + 1) : str_startswith_at(s, sub, i)}
    IN  IF hits = {} THEN 0 ELSE CHOOSE i \in hits : \A j \in hits : i <= j

\* s.count(c) for a single character c
str_count(s, c) == Cardinality({i \in 1..Len(s) : str_startswith_at(s, c, i)})

\* s.split(sep) for a single character sep: always at least one piece
RECURSIVE str_split_from(_, _, _)
str_split_from(s, sep, from) ==
    LET k == str_find(s, sep, from)
    IN  IF k = 0
        THEN <<SubSeq(s, from, Len(s))>>
        ELSE <<SubSeq(s, from, k - 1)>> \o str_split_from(s, sep, k + Len(sep))

str_split(s, sep) == str_split_from(s, sep, 1)

\* ord(c) of a character beyond the Basic Multilingual Plane
astral_ord(c) ==
    65536
    + 1024 * surrogate_code(CHOOSE k \in 1..SurrogateCount : HighSurrogate(k) = Char(c, 1))
    + surrogate_code(CHOOSE k \in 1..SurrogateCount : LowSurrogate(k) = Char(c, 2))

\* chr(n) for the code n of such a character
astral_chr(n) ==
    HighSurrogate(surrogate_index((n - 65536) \div 1024))
    \o LowSurrogate(surrogate_index(n % 1024))

\* the codes beyond 65535 of the characters that a string can hold
astral_held(n) ==
    /\ ((n - 65536) \div 1024) % 256 >= 128
    /\ (n % 1024) % 256 >= 128

\* the characters beyond the Basic Multilingual Plane that are assigned in
\* the planes held (3, 4, 7, 8, 11, 12, 15, 16) and not of private use: the
\* ideographs 196608 to 201546 (CJK extension G).  They are letters: each
\* can start an identifier and is printable; every other character of
\* these planes is neither.
AstralLetters == {astral_chr(n) : n \in {n \in 196608..201546 : astral_held(n)}}

\* the characters that str.strip() removes: tab, newline, vertical tab, form
\* feed, carriage return, the separators 28 to 31, the blank, next line
\* (133), the no-break blank (160) and the Ogham space mark (5760)
Whitespace == Chars("\t\n\f\r   ")

\* s.strip()
str_strip(s) ==
    LET keep == {i \in 1..Len(s) : Char(s, i) \notin Whitespace}
    IN  IF keep = {} THEN ""
        ELSE SubSeq(s, CHOOSE i \in keep : \A j \in keep : i <= j,
                       CHOOSE i \in keep : \A j \in keep : i >= j)

Digits == {"0", "1", "2", "3", "4", "5", "6", "7", "8", "9"}

\* the decimal digits (category Nd) of the other scripts
DecimalDigitsWide ==
    Chars("۰۱۲۳۴۵۶۷۸۹߀߁߂߃߄߅߆߇߈߉০১২৩৪৫৬৭৮৯૦૧૨૩૪૫૬૭૮૯௦௧௨௩௪௫௬௭௮௯೦೧೨೩೪೫೬೭೮೯෦෧෨෩෪෫෬෭෮෯໐໑໒໓໔໕໖໗໘໙႐႑႒႓႔႕႖႗႘႙០១២៣៤៥៦៧៨៩᧐᧑᧒᧓᧔᧕᧖᧗᧘᧙᪀᪁᪂᪃᪄᪅᪆᪇᪈᪉᪐᪑᪒᪓᪔᪕᪖᪗᪘᪙᮰᮱᮲᮳᮴᮵᮶᮷᮸᮹꣐꣑꣒꣓꣔꣕꣖꣗꣘꣙꧐꧑꧒꧓꧔꧕꧖꧗꧘꧙꧰꧱꧲꧳꧴꧵꧶꧷꧸꧹꯰꯱꯲꯳꯴꯵꯶꯷꯸꯹")

\* \d of re: a decimal digit of any script
DecimalDigits == Digits \cup DecimalDigitsWide

\* the characters beyond 255 that can start an identifier (XID_Start)
IdStartWide ==
    Chars("ƀƁƂƃƄƅƆƇƈƉƊƋƌƍƎƏƐƑƒƓƔƕƖƗƘƙƚƛƜƝƞƟƠơƢƣƤƥƦƧƨƩƪƫƬƭƮƯưƱƲƳƴƵƶƷƸƹƺƻƼƽƾƿǀǁǂǃǄǅǆǇǈǉǊǋǌǍǎǏǐǑǒǓǔǕǖǗǘǙǚǛǜǝǞǟǠǡǢǣǤǥǦǧǨǩǪǫǬǭǮǯǰǱǲǳǴǵǶǷǸǹǺǻǼǽǾǿʀʁʂʃʄʅʆʇʈʉʊʋʌʍʎʏʐʑʒʓʔʕʖʗʘʙʚʛʜʝʞʟʠʡʢʣʤʥʦʧʨʩʪʫʬʭʮʯʰʱʲʳʴʵʶʷʸʹʺʻʼʽʾʿˀˁˆˇˈˉˊˋˌˍˎˏːˑˠˡˢˣˤˬˮΆΈΉΊΌΎΏΐΑΒΓΔΕΖΗΘΙΚΛΜΝΞΟΠΡΣΤΥΦΧΨΩΪΫάέήίΰαβγδεζηθικλμνξοπρςστυφχψωϊϋόύώϏϐϑϒϓϔϕϖϗϘϙϚϛϜϝϞϟϠϡϢϣϤϥϦϧϨϩϪϫϬϭϮϯϰϱϲϳϴϵϷϸϹϺϻϼϽϾϿҀҁҊҋҌҍҎҏҐґҒғҔҕҖҗҘҙҚқҜҝҞҟҠҡҢңҤҥҦҧҨҩҪҫҬҭҮүҰұҲҳҴҵҶҷҸҹҺһҼҽҾҿӀӁӂӃӄӅӆӇӈӉӊӋӌӍӎӏӐӑӒӓӔӕӖӗӘәӚӛӜӝӞӟӠӡӢӣӤӥӦӧӨөӪӫӬӭӮӯӰӱӲӳӴӵӶӷӸӹӺӻӼӽӾӿրցւփքօֆևֈאבגדהוזחטיךכלםמןנסעףפץצקרשתׯװױײڀځڂڃڄڅچڇڈډڊڋڌڍڎڏڐڑڒړڔڕږڗژڙښڛڜڝڞڟڠڡڢڣڤڥڦڧڨکڪګڬڭڮگڰڱڲڳڴڵڶڷڸڹںڻڼڽھڿۀہۂۃۄۅۆۇۈۉۊۋیۍێۏېۑےۓەۥۦۮۯۺۻۼۿހށނރބޅކއވމފދތލގޏސޑޒޓޔޕޖޗޘޙޚޛޜޝޞޟޠޡޢޣޤޥޱߊߋߌߍߎߏߐߑߒߓߔߕߖߗߘߙߚߛߜߝߞߟߠߡߢߣߤߥߦߧߨߩߪߴߵߺࢀࢁࢂࢃࢄࢅࢆࢇࢉࢊࢋࢌࢍࢎࢠࢡࢢࢣࢤࢥࢦࢧࢨࢩࢪࢫࢬࢭࢮࢯࢰࢱࢲࢳࢴࢵࢶࢷࢸࢹࢺࢻࢼࢽࢾࢿࣀࣁࣂࣃࣄࣅࣆࣇࣈࣉঀঅআইঈউঊঋঌএঐওঔকখগঘঙচছজঝঞটঠডঢণতথদধনপফবভমযরলশষসহঽৎড়ঢ়য়ৠৡৰৱৼઅઆઇઈઉઊઋઌઍએઐઑઓઔકખગઘઙચછજઝઞટઠડઢણતથદધનપફબભમયરલળવશષસહઽૐૠૡૹஃஅஆஇஈஉஊஎஏஐஒஓஔகஙசஜஞடணதநனபமயரறலளழவஶஷஸஹௐಀಅಆಇಈಉಊಋಌಎಏಐಒಓಔಕಖಗಘಙಚಛಜಝಞಟಠಡಢಣತಥದಧನಪಫಬಭಮಯರಱಲಳವಶಷಸಹಽೝೞೠೡೱೲඅආඇඈඉඊඋඌඍඎඏඐඑඒඓඔඕඖකඛගඝඞඟචඡජඣඤඥඦටඨඩඪණඬතථදධනඳපඵබභමඹයරලවශෂසහළෆກຂຄຆງຈຉຊຌຍຎຏຐຑຒຓດຕຖທຘນບປຜຝພຟຠມຢຣລວຨຩສຫຬອຮຯະາຽເແໂໃ"
          \o "ໄໆໜໝໞໟྈྉྊྋྌႀႁႎႠႡႢႣႤႥႦႧႨႩႪႫႬႭႮႯႰႱႲႳႴႵႶႷႸႹႺႻႼႽႾႿჀჁჂჃჄჅჇჍაბგდევზთიკლმნოპჟრსტუფქღყშჩცძწჭხჯჰჱჲჳჴჵჶჷჸჹჺჼჽჾჿᆀᆁᆂᆃᆄᆅᆆᆇᆈᆉᆊᆋᆌᆍᆎᆏᆐᆑᆒᆓᆔᆕᆖᆗᆘᆙᆚᆛᆜᆝᆞᆟᆠᆡᆢᆣᆤᆥᆦᆧᆨᆩᆪᆫᆬᆭᆮᆯᆰᆱᆲᆳᆴᆵᆶᆷᆸᆹᆺᆻᆼᆽᆾᆿᇀᇁᇂᇃᇄᇅᇆᇇᇈᇉᇊᇋᇌᇍᇎᇏᇐᇑᇒᇓᇔᇕᇖᇗᇘᇙᇚᇛᇜᇝᇞᇟᇠᇡᇢᇣᇤᇥᇦᇧᇨᇩᇪᇫᇬᇭᇮᇯᇰᇱᇲᇳᇴᇵᇶᇷᇸᇹᇺᇻᇼᇽᇾᇿኀኁኂኃኄኅኆኇኈኊኋኌኍነኑኒናኔንኖኗኘኙኚኛኜኝኞኟአኡኢኣኤእኦኧከኩኪካኬክኮኯኰኲኳኴኵኸኹኺኻኼኽኾዀዂዃዄዅወዉዊዋዌውዎዏዐዑዒዓዔዕዖዘዙዚዛዜዝዞዟዠዡዢዣዤዥዦዧየዩዪያዬይዮዯደዱዲዳዴድዶዷዸዹዺዻዼዽዾዿᎀᎁᎂᎃᎄᎅᎆᎇᎈᎉᎊᎋᎌᎍᎎᎏᎠᎡᎢᎣᎤᎥᎦᎧᎨᎩᎪᎫᎬᎭᎮᎯᎰᎱᎲᎳᎴᎵᎶᎷᎸᎹᎺᎻᎼᎽᎾᎿᏀᏁᏂᏃᏄᏅᏆᏇᏈᏉᏊᏋᏌᏍᏎᏏᏐᏑᏒᏓᏔᏕᏖᏗᏘᏙᏚᏛᏜᏝᏞᏟᏠᏡᏢᏣᏤᏥᏦᏧᏨᏩᏪᏫᏬᏭᏮᏯᏰᏱᏲᏳᏴᏵᏸᏹᏺᏻᏼᏽᒀᒁᒂᒃᒄᒅᒆᒇᒈᒉᒊᒋᒌᒍᒎᒏᒐᒑᒒᒓᒔᒕᒖᒗᒘᒙᒚᒛᒜᒝᒞᒟᒠᒡᒢᒣᒤᒥᒦᒧᒨᒩᒪᒫᒬᒭᒮᒯᒰᒱᒲᒳᒴᒵᒶᒷᒸᒹᒺᒻᒼᒽᒾᒿᓀᓁᓂᓃᓄᓅᓆᓇᓈᓉᓊᓋᓌᓍᓎᓏᓐᓑᓒᓓᓔᓕᓖᓗᓘᓙᓚᓛᓜᓝᓞᓟᓠᓡᓢᓣᓤᓥᓦᓧᓨᓩᓪᓫᓬᓭᓮᓯᓰᓱᓲᓳᓴᓵᓶᓷᓸᓹᓺᓻᓼᓽᓾᓿᖀᖁᖂᖃᖄᖅᖆᖇᖈᖉᖊᖋᖌᖍᖎᖏᖐᖑᖒᖓᖔᖕᖖᖗᖘᖙᖚᖛᖜᖝᖞᖟᖠᖡᖢᖣᖤᖥᖦᖧᖨᖩᖪᖫᖬᖭᖮᖯᖰᖱᖲᖳᖴᖵᖶᖷᖸᖹᖺᖻᖼᖽᖾᖿᗀᗁᗂᗃᗄᗅᗆᗇᗈᗉᗊᗋᗌᗍᗎᗏᗐᗑᗒᗓᗔᗕᗖᗗᗘᗙᗚᗛᗜᗝᗞᗟᗠᗡᗢᗣᗤᗥᗦᗧᗨᗩᗪᗫᗬᗭᗮᗯᗰᗱᗲᗳᗴᗵᗶᗷᗸᗹᗺᗻᗼᗽᗾᗿᚁᚂᚃᚄᚅᚆᚇᚈᚉᚊᚋᚌᚍᚎᚏᚐᚑᚒᚓᚔᚕᚖᚗᚘᚙᚚᚠᚡᚢᚣᚤᚥᚦᚧᚨᚩᚪᚫᚬᚭᚮᚯᚰᚱᚲᚳᚴᚵᚶᚷᚸᚹᚺᚻᚼᚽᚾᚿᛀᛁᛂᛃᛄᛅᛆᛇᛈᛉᛊᛋᛌᛍᛎᛏᛐᛑᛒᛓᛔᛕᛖᛗᛘᛙᛚᛛᛜᛝᛞᛟᛠᛡᛢᛣᛤᛥᛦᛧᛨᛩᛪᛮᛯᛰᛱᛲᛳᛴᛵᛶᛷᛸកខគឃងចឆជឈញដឋឌឍណតថទធនបផពភមយរលវឝឞសហឡអឣឤឥឦឧឨឩឪឫឬឭឮឯឰឱឲឳៗៜᢀᢁᢂᢃᢄᢅᢆᢇᢈᢉᢊᢋᢌᢍᢎᢏᢐᢑᢒᢓᢔᢕᢖᢗᢘᢙᢚᢛᢜᢝᢞᢟᢠᢡᢢᢣᢤᢥᢦᢧᢨᢪᢰᢱᢲᢳᢴᢵᢶᢷᢸᢹᢺᢻᢼᢽᢾᢿᣀᣁᣂᣃᣄᣅᣆᣇᣈᣉᣊᣋᣌᣍᣎᣏᣐᣑᣒᣓᣔᣕᣖᣗᣘᣙᣚᣛᣜᣝᣞᣟᣠᣡᣢᣣᣤᣥᣦᣧᣨᣩᣪᣫᣬᣭᣮᣯᣰᣱᣲᣳᣴᣵᦀᦁᦂᦃᦄᦅᦆᦇᦈᦉᦊᦋᦌᦍᦎᦏᦐᦑᦒᦓᦔᦕᦖᦗᦘᦙᦚᦛᦜᦝᦞᦟᦠᦡᦢᦣ"
          \o "ᦤᦥᦦᦧᦨᦩᦪᦫᦰᦱᦲᦳᦴᦵᦶᦷᦸᦹᦺᦻᦼᦽᦾᦿᧀᧁᧂᧃᧄᧅᧆᧇᧈᧉᪧᮃᮄᮅᮆᮇᮈᮉᮊᮋᮌᮍᮎᮏᮐᮑᮒᮓᮔᮕᮖᮗᮘᮙᮚᮛᮜᮝᮞᮟᮠᮮᮯᮺᮻᮼᮽᮾᮿᯀᯁᯂᯃᯄᯅᯆᯇᯈᯉᯊᯋᯌᯍᯎᯏᯐᯑᯒᯓᯔᯕᯖᯗᯘᯙᯚᯛᯜᯝᯞᯟᯠᯡᯢᯣᯤᯥᲀᲁᲂᲃᲄᲅᲆᲇᲈᲐᲑᲒᲓᲔᲕᲖᲗᲘᲙᲚᲛᲜᲝᲞᲟᲠᲡᲢᲣᲤᲥᲦᲧᲨᲩᲪᲫᲬᲭᲮᲯᲰᲱᲲᲳᲴᲵᲶᲷᲸᲹᲺᲽᲾᲿᳩᳪᳫᳬᳮᳯᳰᳱᳲᳳᳵᳶᳺᶀᶁᶂᶃᶄᶅᶆᶇᶈᶉᶊᶋᶌᶍᶎᶏᶐᶑᶒᶓᶔᶕᶖᶗᶘᶙᶚᶛᶜᶝᶞᶟᶠᶡᶢᶣᶤᶥᶦᶧᶨᶩᶪᶫᶬᶭᶮᶯᶰᶱᶲᶳᶴᶵᶶᶷᶸᶹᶺᶻᶼᶽᶾᶿẀẁẂẃẄẅẆẇẈẉẊẋẌẍẎẏẐẑẒẓẔẕẖẗẘẙẚẛẜẝẞẟẠạẢảẤấẦầẨẩẪẫẬậẮắẰằẲẳẴẵẶặẸẹẺẻẼẽẾếỀềỂểỄễỆệỈỉỊịỌọỎỏỐốỒồỔổỖỗỘộỚớỜờỞởỠỡỢợỤụỦủỨứỪừỬửỮữỰựỲỳỴỵỶỷỸỹỺỻỼỽỾỿᾀᾁᾂᾃᾄᾅᾆᾇᾈᾉᾊᾋᾌᾍᾎᾏᾐᾑᾒᾓᾔᾕᾖᾗᾘᾙᾚᾛᾜᾝᾞᾟᾠᾡᾢᾣᾤᾥᾦᾧᾨᾩᾪᾫᾬᾭᾮᾯᾰᾱᾲᾳᾴᾶᾷᾸᾹᾺΆᾼιῂῃῄῆῇῈΈῊΉῌῐῑῒΐῖῗῘῙῚΊῠῡῢΰῤῥῦῧῨῩῪΎῬῲῳῴῶῷῸΌῺΏῼₐₑₒₓₔₕₖₗₘₙₚₛₜↀↁↂↃↄↅↆↇↈⲀⲁⲂⲃⲄⲅⲆⲇⲈⲉⲊⲋⲌⲍⲎⲏⲐⲑⲒⲓⲔⲕⲖⲗⲘⲙⲚⲛⲜⲝⲞⲟⲠⲡⲢⲣⲤⲥⲦⲧⲨⲩⲪⲫⲬⲭⲮⲯⲰⲱⲲⲳⲴⲵⲶⲷⲸⲹⲺⲻⲼⲽⲾⲿⳀⳁⳂⳃⳄⳅⳆⳇⳈⳉⳊⳋⳌⳍⳎⳏⳐⳑⳒⳓⳔⳕⳖⳗⳘⳙⳚⳛⳜⳝⳞⳟⳠⳡⳢⳣⳤⳫⳬⳭⳮⳲⳳⶀⶁⶂⶃⶄⶅⶆⶇⶈⶉⶊⶋⶌⶍⶎⶏⶐⶑⶒⶓⶔⶕⶖⶠⶡⶢⶣⶤⶥⶦⶨⶩⶪⶫⶬⶭⶮⶰⶱⶲⶳⶴⶵⶶⶸⶹⶺⶻⶼⶽⶾⷀⷁⷂⷃⷄⷅⷆⷈⷉⷊⷋⷌⷍⷎⷐⷑⷒⷓⷔⷕⷖⷘⷙⷚⷛⷜⷝⷞむめもゃやゅゆょよらりるれろゎわゐゑをんゔゕゖゝゞゟァアィイゥウェエォオカガキギクグケゲコゴサザシジスズセゼソゾタダチヂッツヅテデトドナニヌネノハバパヒビピフブプヘベペホボポマミムメモャヤュユョヨラリルレロヮワヰヱヲンヴヵヶヷヸヹヺーヽヾヿㆀㆁㆂㆃㆄㆅㆆㆇㆈㆉㆊㆋㆌㆍㆎㆠㆡㆢㆣㆤㆥㆦㆧㆨㆩㆪㆫㆬㆭㆮㆯㆰㆱㆲㆳㆴㆵㆶㆷㆸㆹㆺㆻㆼㆽㆾㆿㇰㇱㇲㇳㇴㇵㇶㇷㇸㇹㇺㇻㇼㇽㇾㇿ㒀㒁㒂㒃㒄㒅㒆㒇㒈㒉㒊㒋㒌㒍㒎㒏㒐㒑㒒㒓㒔㒕㒖㒗㒘㒙㒚㒛㒜㒝㒞㒟㒠㒡㒢㒣㒤㒥㒦㒧㒨㒩㒪㒫㒬㒭㒮㒯㒰㒱㒲㒳㒴㒵㒶㒷㒸㒹㒺㒻㒼㒽㒾㒿㓀㓁㓂㓃㓄㓅㓆㓇㓈㓉㓊㓋㓌㓍㓎㓏㓐㓑㓒㓓㓔㓕㓖㓗㓘㓙㓚㓛㓜㓝㓞㓟㓠㓡㓢㓣㓤㓥㓦㓧㓨㓩㓪㓫㓬㓭㓮㓯㓰㓱㓲㓳㓴㓵㓶㓷㓸㓹㓺㓻㓼㓽㓾㓿㖀㖁㖂㖃㖄㖅㖆㖇㖈㖉㖊㖋㖌㖍㖎㖏㖐㖑㖒㖓㖔㖕㖖㖗㖘㖙㖚㖛㖜㖝"
          \o "㖞㖟㖠㖡㖢㖣㖤㖥㖦㖧㖨㖩㖪㖫㖬㖭㖮㖯㖰㖱㖲㖳㖴㖵㖶㖷㖸㖹㖺㖻㖼㖽㖾㖿㗀㗁㗂㗃㗄㗅㗆㗇㗈㗉㗊㗋㗌㗍㗎㗏㗐㗑㗒㗓㗔㗕㗖㗗㗘㗙㗚㗛㗜㗝㗞㗟㗠㗡㗢㗣㗤㗥㗦㗧㗨㗩㗪㗫㗬㗭㗮㗯㗰㗱㗲㗳㗴㗵㗶㗷㗸㗹㗺㗻㗼㗽㗾㗿㚀㚁㚂㚃㚄㚅㚆㚇㚈㚉㚊㚋㚌㚍㚎㚏㚐㚑㚒㚓㚔㚕㚖㚗㚘㚙㚚㚛㚜㚝㚞㚟㚠㚡㚢㚣㚤㚥㚦㚧㚨㚩㚪㚫㚬㚭㚮㚯㚰㚱㚲㚳㚴㚵㚶㚷㚸㚹㚺㚻㚼㚽㚾㚿㛀㛁㛂㛃㛄㛅㛆㛇㛈㛉㛊㛋㛌㛍㛎㛏㛐㛑㛒㛓㛔㛕㛖㛗㛘㛙㛚㛛㛜㛝㛞㛟㛠㛡㛢㛣㛤㛥㛦㛧㛨㛩㛪㛫㛬㛭㛮㛯㛰㛱㛲㛳㛴㛵㛶㛷㛸㛹㛺㛻㛼㛽㛾㛿㞀㞁㞂㞃㞄㞅㞆㞇㞈㞉㞊㞋㞌㞍㞎㞏㞐㞑㞒㞓㞔㞕㞖㞗㞘㞙㞚㞛㞜㞝㞞㞟㞠㞡㞢㞣㞤㞥㞦㞧㞨㞩㞪㞫㞬㞭㞮㞯㞰㞱㞲㞳㞴㞵㞶㞷㞸㞹㞺㞻㞼㞽㞾㞿㟀㟁㟂㟃㟄㟅㟆㟇㟈㟉㟊㟋㟌㟍㟎㟏㟐㟑㟒㟓㟔㟕㟖㟗㟘㟙㟚㟛㟜㟝㟞㟟㟠㟡㟢㟣㟤㟥㟦㟧㟨㟩㟪㟫㟬㟭㟮㟯㟰㟱㟲㟳㟴㟵㟶㟷㟸㟹㟺㟻㟼㟽㟾㟿㢀㢁㢂㢃㢄㢅㢆㢇㢈㢉㢊㢋㢌㢍㢎㢏㢐㢑㢒㢓㢔㢕㢖㢗㢘㢙㢚㢛㢜㢝㢞㢟㢠㢡㢢㢣㢤㢥㢦㢧㢨㢩㢪㢫㢬㢭㢮㢯㢰㢱㢲㢳㢴㢵㢶㢷㢸㢹㢺㢻㢼㢽㢾㢿㣀㣁㣂㣃㣄㣅㣆㣇㣈㣉㣊㣋㣌㣍㣎㣏㣐㣑㣒㣓㣔㣕㣖㣗㣘㣙㣚㣛㣜㣝㣞㣟㣠㣡㣢㣣㣤㣥㣦㣧㣨㣩㣪㣫㣬㣭㣮㣯㣰㣱㣲㣳㣴㣵㣶㣷㣸㣹㣺㣻㣼㣽㣾㣿㦀㦁㦂㦃㦄㦅㦆㦇㦈㦉㦊㦋㦌㦍㦎㦏㦐㦑㦒㦓㦔㦕㦖㦗㦘㦙㦚㦛㦜㦝㦞㦟㦠㦡㦢㦣㦤㦥㦦㦧㦨㦩㦪㦫㦬㦭㦮㦯㦰㦱㦲㦳㦴㦵㦶㦷㦸㦹㦺㦻㦼㦽㦾㦿㧀㧁㧂㧃㧄㧅㧆㧇㧈㧉㧊㧋㧌㧍㧎㧏㧐㧑㧒㧓㧔㧕㧖㧗㧘㧙㧚㧛㧜㧝㧞㧟㧠㧡㧢㧣㧤㧥㧦㧧㧨㧩㧪㧫㧬㧭㧮㧯㧰㧱㧲㧳㧴㧵㧶㧷㧸㧹㧺㧻㧼㧽㧾㧿㪀㪁㪂㪃㪄㪅㪆㪇㪈㪉㪊㪋㪌㪍㪎㪏㪐㪑㪒㪓㪔㪕㪖㪗㪘㪙㪚㪛㪜㪝㪞㪟㪠㪡㪢㪣㪤㪥㪦㪧㪨㪩㪪㪫㪬㪭㪮㪯㪰㪱㪲㪳㪴㪵㪶㪷㪸㪹㪺㪻㪼㪽㪾㪿㫀㫁㫂㫃㫄㫅㫆㫇㫈㫉㫊㫋㫌㫍㫎㫏㫐㫑㫒㫓㫔㫕㫖㫗㫘㫙㫚㫛㫜㫝㫞㫟㫠㫡㫢㫣㫤㫥㫦㫧㫨㫩㫪㫫㫬㫭㫮㫯㫰㫱㫲㫳㫴㫵㫶㫷㫸㫹㫺㫻㫼㫽㫾㫿㮀㮁㮂㮃㮄㮅㮆㮇㮈㮉㮊㮋㮌㮍㮎㮏㮐㮑㮒㮓㮔㮕㮖㮗㮘㮙㮚㮛㮜㮝㮞㮟㮠㮡㮢㮣㮤㮥㮦㮧㮨㮩㮪㮫㮬㮭㮮㮯㮰㮱㮲㮳㮴㮵㮶㮷㮸㮹㮺㮻㮼㮽㮾㮿㯀㯁㯂㯃㯄㯅㯆㯇㯈㯉㯊㯋㯌㯍㯎㯏㯐㯑㯒㯓㯔㯕㯖㯗㯘㯙㯚㯛㯜㯝㯞㯟㯠㯡㯢㯣㯤㯥㯦㯧㯨㯩㯪㯫㯬㯭㯮㯯㯰㯱㯲㯳㯴㯵㯶㯷㯸㯹㯺㯻㯼㯽㯾㯿㲀㲁㲂㲃㲄㲅㲆㲇㲈㲉㲊㲋㲌㲍㲎㲏㲐㲑㲒㲓㲔㲕㲖㲗㲘㲙㲚㲛㲜㲝㲞㲟㲠㲡㲢㲣㲤㲥㲦㲧㲨㲩㲪㲫㲬㲭㲮㲯㲰㲱㲲㲳㲴㲵㲶㲷㲸㲹㲺㲻㲼㲽㲾㲿㳀㳁㳂㳃㳄㳅㳆㳇㳈㳉㳊㳋㳌㳍㳎㳏㳐㳑㳒㳓㳔㳕㳖㳗㳘㳙㳚㳛㳜㳝㳞㳟㳠㳡㳢㳣㳤㳥㳦㳧㳨㳩㳪㳫㳬㳭㳮㳯㳰㳱㳲㳳㳴㳵㳶㳷㳸㳹㳺㳻㳼㳽㳾㳿㶀㶁㶂㶃㶄㶅㶆㶇㶈㶉㶊㶋㶌㶍㶎㶏㶐㶑㶒㶓㶔㶕㶖㶗㶘㶙㶚㶛㶜㶝"
          \o "㶞㶟㶠㶡㶢㶣㶤㶥㶦㶧㶨㶩㶪㶫㶬㶭㶮㶯㶰㶱㶲㶳㶴㶵㶶㶷㶸㶹㶺㶻㶼㶽㶾㶿㷀㷁㷂㷃㷄㷅㷆㷇㷈㷉㷊㷋㷌㷍㷎㷏㷐㷑㷒㷓㷔㷕㷖㷗㷘㷙㷚㷛㷜㷝㷞㷟㷠㷡㷢㷣㷤㷥㷦㷧㷨㷩㷪㷫㷬㷭㷮㷯㷰㷱㷲㷳㷴㷵㷶㷷㷸㷹㷺㷻㷼㷽㷾㷿㺀㺁㺂㺃㺄㺅㺆㺇㺈㺉㺊㺋㺌㺍㺎㺏㺐㺑㺒㺓㺔㺕㺖㺗㺘㺙㺚㺛㺜㺝㺞㺟㺠㺡㺢㺣㺤㺥㺦㺧㺨㺩㺪㺫㺬㺭㺮㺯㺰㺱㺲㺳㺴㺵㺶㺷㺸㺹㺺㺻㺼㺽㺾㺿㻀㻁㻂㻃㻄㻅㻆㻇㻈㻉㻊㻋㻌㻍㻎㻏㻐㻑㻒㻓㻔㻕㻖㻗㻘㻙㻚㻛㻜㻝㻞㻟㻠㻡㻢㻣㻤㻥㻦㻧㻨㻩㻪㻫㻬㻭㻮㻯㻰㻱㻲㻳㻴㻵㻶㻷㻸㻹㻺㻻㻼㻽㻾㻿㾀㾁㾂㾃㾄㾅㾆㾇㾈㾉㾊㾋㾌㾍㾎㾏㾐㾑㾒㾓㾔㾕㾖㾗㾘㾙㾚㾛㾜㾝㾞㾟㾠㾡㾢㾣㾤㾥㾦㾧㾨㾩㾪㾫㾬㾭㾮㾯㾰㾱㾲㾳㾴㾵㾶㾷㾸㾹㾺㾻㾼㾽㾾㾿㿀㿁㿂㿃㿄㿅㿆㿇㿈㿉㿊㿋㿌㿍㿎㿏㿐㿑㿒㿓㿔㿕㿖㿗㿘㿙㿚㿛㿜㿝㿞㿟㿠㿡㿢㿣㿤㿥㿦㿧㿨㿩㿪㿫㿬㿭㿮㿯㿰㿱㿲㿳㿴㿵㿶㿷㿸㿹㿺㿻㿼㿽㿾㿿䂀䂁䂂䂃䂄䂅䂆䂇䂈䂉䂊䂋䂌䂍䂎䂏䂐䂑䂒䂓䂔䂕䂖䂗䂘䂙䂚䂛䂜䂝䂞䂟䂠䂡䂢䂣䂤䂥䂦䂧䂨䂩䂪䂫䂬䂭䂮䂯䂰䂱䂲䂳䂴䂵䂶䂷䂸䂹䂺䂻䂼䂽䂾䂿䃀䃁䃂䃃䃄䃅䃆䃇䃈䃉䃊䃋䃌䃍䃎䃏䃐䃑䃒䃓䃔䃕䃖䃗䃘䃙䃚䃛䃜䃝䃞䃟䃠䃡䃢䃣䃤䃥䃦䃧䃨䃩䃪䃫䃬䃭䃮䃯䃰䃱䃲䃳䃴䃵䃶䃷䃸䃹䃺䃻䃼䃽䃾䃿䆀䆁䆂䆃䆄䆅䆆䆇䆈䆉䆊䆋䆌䆍䆎䆏䆐䆑䆒䆓䆔䆕䆖䆗䆘䆙䆚䆛䆜䆝䆞䆟䆠䆡䆢䆣䆤䆥䆦䆧䆨䆩䆪䆫䆬䆭䆮䆯䆰䆱䆲䆳䆴䆵䆶䆷䆸䆹䆺䆻䆼䆽䆾䆿䇀䇁䇂䇃䇄䇅䇆䇇䇈䇉䇊䇋䇌䇍䇎䇏䇐䇑䇒䇓䇔䇕䇖䇗䇘䇙䇚䇛䇜䇝䇞䇟䇠䇡䇢䇣䇤䇥䇦䇧䇨䇩䇪䇫䇬䇭䇮䇯䇰䇱䇲䇳䇴䇵䇶䇷䇸䇹䇺䇻䇼䇽䇾䇿䊀䊁䊂䊃䊄䊅䊆䊇䊈䊉䊊䊋䊌䊍䊎䊏䊐䊑䊒䊓䊔䊕䊖䊗䊘䊙䊚䊛䊜䊝䊞䊟䊠䊡䊢䊣䊤䊥䊦䊧䊨䊩䊪䊫䊬䊭䊮䊯䊰䊱䊲䊳䊴䊵䊶䊷䊸䊹䊺䊻䊼䊽䊾䊿䋀䋁䋂䋃䋄䋅䋆䋇䋈䋉䋊䋋䋌䋍䋎䋏䋐䋑䋒䋓䋔䋕䋖䋗䋘䋙䋚䋛䋜䋝䋞䋟䋠䋡䋢䋣䋤䋥䋦䋧䋨䋩䋪䋫䋬䋭䋮䋯䋰䋱䋲䋳䋴䋵䋶䋷䋸䋹䋺䋻䋼䋽䋾䋿䎀䎁䎂䎃䎄䎅䎆䎇䎈䎉䎊䎋䎌䎍䎎䎏䎐䎑䎒䎓䎔䎕䎖䎗䎘䎙䎚䎛䎜䎝䎞䎟䎠䎡䎢䎣䎤䎥䎦䎧䎨䎩䎪䎫䎬䎭䎮䎯䎰䎱䎲䎳䎴䎵䎶䎷䎸䎹䎺䎻䎼䎽䎾䎿䏀䏁䏂䏃䏄䏅䏆䏇䏈䏉䏊䏋䏌䏍䏎䏏䏐䏑䏒䏓䏔䏕䏖䏗䏘䏙䏚䏛䏜䏝䏞䏟䏠䏡䏢䏣䏤䏥䏦䏧䏨䏩䏪䏫䏬䏭䏮䏯䏰䏱䏲䏳䏴䏵䏶䏷䏸䏹䏺䏻䏼䏽䏾䏿䒀䒁䒂䒃䒄䒅䒆䒇䒈䒉䒊䒋䒌䒍䒎䒏䒐䒑䒒䒓䒔䒕䒖䒗䒘䒙䒚䒛䒜䒝䒞䒟䒠䒡䒢䒣䒤䒥䒦䒧䒨䒩䒪䒫䒬䒭䒮䒯䒰䒱䒲䒳䒴䒵䒶䒷䒸䒹䒺䒻䒼䒽䒾䒿䓀䓁䓂䓃䓄䓅䓆䓇䓈䓉䓊䓋䓌䓍䓎䓏䓐䓑䓒䓓䓔䓕䓖䓗䓘䓙䓚䓛䓜䓝䓞䓟䓠䓡䓢䓣䓤䓥䓦䓧䓨䓩䓪䓫䓬䓭䓮䓯䓰䓱䓲䓳䓴䓵䓶䓷䓸䓹䓺䓻䓼䓽䓾䓿䖀䖁䖂䖃䖄䖅䖆䖇䖈䖉䖊䖋䖌䖍䖎䖏䖐䖑䖒䖓䖔䖕䖖䖗䖘䖙䖚䖛䖜䖝"
          \o "䖞䖟䖠䖡䖢䖣䖤䖥䖦䖧䖨䖩䖪䖫䖬䖭䖮䖯䖰䖱䖲䖳䖴䖵䖶䖷䖸䖹䖺䖻䖼䖽䖾䖿䗀䗁䗂䗃䗄䗅䗆䗇䗈䗉䗊䗋䗌䗍䗎䗏䗐䗑䗒䗓䗔䗕䗖䗗䗘䗙䗚䗛䗜䗝䗞䗟䗠䗡䗢䗣䗤䗥䗦䗧䗨䗩䗪䗫䗬䗭䗮䗯䗰䗱䗲䗳䗴䗵䗶䗷䗸䗹䗺䗻䗼䗽䗾䗿䚀䚁䚂䚃䚄䚅䚆䚇䚈䚉䚊䚋䚌䚍䚎䚏䚐䚑䚒䚓䚔䚕䚖䚗䚘䚙䚚䚛䚜䚝䚞䚟䚠䚡䚢䚣䚤䚥䚦䚧䚨䚩䚪䚫䚬䚭䚮䚯䚰䚱䚲䚳䚴䚵䚶䚷䚸䚹䚺䚻䚼䚽䚾䚿䛀䛁䛂䛃䛄䛅䛆䛇䛈䛉䛊䛋䛌䛍䛎䛏䛐䛑䛒䛓䛔䛕䛖䛗䛘䛙䛚䛛䛜䛝䛞䛟䛠䛡䛢䛣䛤䛥䛦䛧䛨䛩䛪䛫䛬䛭䛮䛯䛰䛱䛲䛳䛴䛵䛶䛷䛸䛹䛺䛻䛼䛽䛾䛿䞀䞁䞂䞃䞄䞅䞆䞇䞈䞉䞊䞋䞌䞍䞎䞏䞐䞑䞒䞓䞔䞕䞖䞗䞘䞙䞚䞛䞜䞝䞞䞟䞠䞡䞢䞣䞤䞥䞦䞧䞨䞩䞪䞫䞬䞭䞮䞯䞰䞱䞲䞳䞴䞵䞶䞷䞸䞹䞺䞻䞼䞽䞾䞿䟀䟁䟂䟃䟄䟅䟆䟇䟈䟉䟊䟋䟌䟍䟎䟏䟐䟑䟒䟓䟔䟕䟖䟗䟘䟙䟚䟛䟜䟝䟞䟟䟠䟡䟢䟣䟤䟥䟦䟧䟨䟩䟪䟫䟬䟭䟮䟯䟰䟱䟲䟳䟴䟵䟶䟷䟸䟹䟺䟻䟼䟽䟾䟿䢀䢁䢂䢃䢄䢅䢆䢇䢈䢉䢊䢋䢌䢍䢎䢏䢐䢑䢒䢓䢔䢕䢖䢗䢘䢙䢚䢛䢜䢝䢞䢟䢠䢡䢢䢣䢤䢥䢦䢧䢨䢩䢪䢫䢬䢭䢮䢯䢰䢱䢲䢳䢴䢵䢶䢷䢸䢹䢺䢻䢼䢽䢾䢿䣀䣁䣂䣃䣄䣅䣆䣇䣈䣉䣊䣋䣌䣍䣎䣏䣐䣑䣒䣓䣔䣕䣖䣗䣘䣙䣚䣛䣜䣝䣞䣟䣠䣡䣢䣣䣤䣥䣦䣧䣨䣩䣪䣫䣬䣭䣮䣯䣰䣱䣲䣳䣴䣵䣶䣷䣸䣹䣺䣻䣼䣽䣾䣿䦀䦁䦂䦃䦄䦅䦆䦇䦈䦉䦊䦋䦌䦍䦎䦏䦐䦑䦒䦓䦔䦕䦖䦗䦘䦙䦚䦛䦜䦝䦞䦟䦠䦡䦢䦣䦤䦥䦦䦧䦨䦩䦪䦫䦬䦭䦮䦯䦰䦱䦲䦳䦴䦵䦶䦷䦸䦹䦺䦻䦼䦽䦾䦿䧀䧁䧂䧃䧄䧅䧆䧇䧈䧉䧊䧋䧌䧍䧎䧏䧐䧑䧒䧓䧔䧕䧖䧗䧘䧙䧚䧛䧜䧝䧞䧟䧠䧡䧢䧣䧤䧥䧦䧧䧨䧩䧪䧫䧬䧭䧮䧯䧰䧱䧲䧳䧴䧵䧶䧷䧸䧹䧺䧻䧼䧽䧾䧿䪀䪁䪂䪃䪄䪅䪆䪇䪈䪉䪊䪋䪌䪍䪎䪏䪐䪑䪒䪓䪔䪕䪖䪗䪘䪙䪚䪛䪜䪝䪞䪟䪠䪡䪢䪣䪤䪥䪦䪧䪨䪩䪪䪫䪬䪭䪮䪯䪰䪱䪲䪳䪴䪵䪶䪷䪸䪹䪺䪻䪼䪽䪾䪿䫀䫁䫂䫃䫄䫅䫆䫇䫈䫉䫊䫋䫌䫍䫎䫏䫐䫑䫒䫓䫔䫕䫖䫗䫘䫙䫚䫛䫜䫝䫞䫟䫠䫡䫢䫣䫤䫥䫦䫧䫨䫩䫪䫫䫬䫭䫮䫯䫰䫱䫲䫳䫴䫵䫶䫷䫸䫹䫺䫻䫼䫽䫾䫿䮀䮁䮂䮃䮄䮅䮆䮇䮈䮉䮊䮋䮌䮍䮎䮏䮐䮑䮒䮓䮔䮕䮖䮗䮘䮙䮚䮛䮜䮝䮞䮟䮠䮡䮢䮣䮤䮥䮦䮧䮨䮩䮪䮫䮬䮭䮮䮯䮰䮱䮲䮳䮴䮵䮶䮷䮸䮹䮺䮻䮼䮽䮾䮿䯀䯁䯂䯃䯄䯅䯆䯇䯈䯉䯊䯋䯌䯍䯎䯏䯐䯑䯒䯓䯔䯕䯖䯗䯘䯙䯚䯛䯜䯝䯞䯟䯠䯡䯢䯣䯤䯥䯦䯧䯨䯩䯪䯫䯬䯭䯮䯯䯰䯱䯲䯳䯴䯵䯶䯷䯸䯹䯺䯻䯼䯽䯾䯿䲀䲁䲂䲃䲄䲅䲆䲇䲈䲉䲊䲋䲌䲍䲎䲏䲐䲑䲒䲓䲔䲕䲖䲗䲘䲙䲚䲛䲜䲝䲞䲟䲠䲡䲢䲣䲤䲥䲦䲧䲨䲩䲪䲫䲬䲭䲮䲯䲰䲱䲲䲳䲴䲵䲶䲷䲸䲹䲺䲻䲼䲽䲾䲿䳀䳁䳂䳃䳄䳅䳆䳇䳈䳉䳊䳋䳌䳍䳎䳏䳐䳑䳒䳓䳔䳕䳖䳗䳘䳙䳚䳛䳜䳝䳞䳟䳠䳡䳢䳣䳤䳥䳦䳧䳨䳩䳪䳫䳬䳭䳮䳯䳰䳱䳲䳳䳴䳵䳶䳷䳸䳹䳺䳻䳼䳽䳾䳿䶀䶁䶂䶃䶄䶅䶆䶇䶈䶉䶊䶋䶌䶍䶎䶏䶐䶑䶒䶓䶔䶕䶖䶗䶘䶙䶚䶛䶜䶝"
          \o "䶞䶟䶠䶡䶢䶣䶤䶥䶦䶧䶨䶩䶪䶫䶬䶭䶮䶯䶰䶱䶲䶳䶴䶵䶶䶷䶸䶹䶺䶻䶼䶽䶾䶿亀亁亂亃亄亅了亇予争亊事二亍于亏亐云互亓五井亖亗亘亙亚些亜亝亞亟亠亡亢亣交亥亦产亨亩亪享京亭亮亯亰亱亲亳亴亵亶亷亸亹人亻亼亽亾亿什仁仂仃仄仅仆仇仈仉今介仌仍从仏仐仑仒仓仔仕他仗付仙仚仛仜仝仞仟仠仡仢代令以仦仧仨仩仪仫们仭仮仯仰仱仲仳仴仵件价仸仹仺任仼份仾仿侀侁侂侃侄侅來侇侈侉侊例侌侍侎侏侐侑侒侓侔侕侖侗侘侙侚供侜依侞侟侠価侢侣侤侥侦侧侨侩侪侫侬侭侮侯侰侱侲侳侴侵侶侷侸侹侺侻侼侽侾便俀俁係促俄俅俆俇俈俉俊俋俌俍俎俏俐俑俒俓俔俕俖俗俘俙俚俛俜保俞俟俠信俢俣俤俥俦俧俨俩俪俫俬俭修俯俰俱俲俳俴俵俶俷俸俹俺俻俼俽俾俿傀傁傂傃傄傅傆傇傈傉傊傋傌傍傎傏傐傑傒傓傔傕傖傗傘備傚傛傜傝傞傟傠傡傢傣傤傥傦傧储傩傪傫催傭傮傯傰傱傲傳傴債傶傷傸傹傺傻傼傽傾傿僀僁僂僃僄僅僆僇僈僉僊僋僌働僎像僐僑僒僓僔僕僖僗僘僙僚僛僜僝僞僟僠僡僢僣僤僥僦僧僨僩僪僫僬僭僮僯僰僱僲僳僴僵僶僷僸價僺僻僼僽僾僿冀冁冂冃冄内円冇冈冉冊冋册再冎冏冐冑冒冓冔冕冖冗冘写冚军农冝冞冟冠冡冢冣冤冥冦冧冨冩冪冫冬冭冮冯冰冱冲决冴况冶冷冸冹冺冻冼冽冾冿净凁凂凃凄凅准凇凈凉凊凋凌凍凎减凐凑凒凓凔凕凖凗凘凙凚凛凜凝凞凟几凡凢凣凤凥処凧凨凩凪凫凬凭凮凯凰凱凲凳凴凵凶凷凸凹出击凼函凾凿劀劁劂劃劄劅劆劇劈劉劊劋劌劍劎劏劐劑劒劓劔劕劖劗劘劙劚力劜劝办功加务劢劣劤劥劦劧动助努劫劬劭劮劯劰励劲劳労劵劶劷劸効劺劻劼劽劾势勀勁勂勃勄勅勆勇勈勉勊勋勌勍勎勏勐勑勒勓勔動勖勗勘務勚勛勜勝勞募勠勡勢勣勤勥勦勧勨勩勪勫勬勭勮勯勰勱勲勳勴勵勶勷勸勹勺勻勼勽勾勿厀厁厂厃厄厅历厇厈厉厊压厌厍厎厏厐厑厒厓厔厕厖厗厘厙厚厛厜厝厞原厠厡厢厣厤厥厦厧厨厩厪厫厬厭厮厯厰厱厲厳厴厵厶厷厸厹厺去厼厽厾县叀叁参參叄叅叆叇又叉及友双反収叏叐发叒叓叔叕取受变叙叚叛叜叝叞叟叠叡叢口古句另叧叨叩只叫召叭叮可台叱史右叴叵叶号司叹叺叻叼叽叾叿咀咁咂咃咄咅咆咇咈咉咊咋和咍咎咏咐咑咒咓咔咕咖咗咘咙咚咛咜咝咞咟咠咡咢咣咤咥咦咧咨咩咪咫咬咭咮咯咰咱咲咳咴咵咶咷咸咹咺咻咼咽咾咿哀品哂哃哄哅哆哇哈哉哊哋哌响哎哏哐哑哒哓哔哕哖哗哘哙哚哛哜哝哞哟哠員哢哣哤哥哦哧哨哩哪哫哬哭哮哯哰哱哲哳哴哵哶哷哸哹哺哻哼哽哾哿喀喁喂喃善喅喆喇喈喉喊喋喌喍喎喏喐喑喒喓喔喕喖喗喘喙喚喛喜喝喞喟喠喡喢喣喤喥喦喧喨喩喪喫喬喭單喯喰喱喲喳喴喵営喷喸喹喺喻喼喽喾喿嗀嗁嗂嗃嗄嗅嗆嗇嗈嗉嗊嗋嗌嗍嗎嗏嗐嗑嗒嗓嗔嗕嗖嗗嗘嗙嗚嗛嗜嗝"
          \o "嗞嗟嗠嗡嗢嗣嗤嗥嗦嗧嗨嗩嗪嗫嗬嗭嗮嗯嗰嗱嗲嗳嗴嗵嗶嗷嗸嗹嗺嗻嗼嗽嗾嗿嚀嚁嚂嚃嚄嚅嚆嚇嚈嚉嚊嚋嚌嚍嚎嚏嚐嚑嚒嚓嚔嚕嚖嚗嚘嚙嚚嚛嚜嚝嚞嚟嚠嚡嚢嚣嚤嚥嚦嚧嚨嚩嚪嚫嚬嚭嚮嚯嚰嚱嚲嚳嚴嚵嚶嚷嚸嚹嚺嚻嚼嚽嚾嚿囀囁囂囃囄囅囆囇囈囉囊囋囌囍囎囏囐囑囒囓囔囕囖囗囘囙囚四囜囝回囟因囡团団囤囥囦囧囨囩囪囫囬园囮囯困囱囲図围囵囶囷囸囹固囻囼国图囿垀垁垂垃垄垅垆垇垈垉垊型垌垍垎垏垐垑垒垓垔垕垖垗垘垙垚垛垜垝垞垟垠垡垢垣垤垥垦垧垨垩垪垫垬垭垮垯垰垱垲垳垴垵垶垷垸垹垺垻垼垽垾垿埀埁埂埃埄埅埆埇埈埉埊埋埌埍城埏埐埑埒埓埔埕埖埗埘埙埚埛埜埝埞域埠埡埢埣埤埥埦埧埨埩埪埫埬埭埮埯埰埱埲埳埴埵埶執埸培基埻埼埽埾埿墀墁墂境墄墅墆墇墈墉墊墋墌墍墎墏墐墑墒墓墔墕墖増墘墙墚墛墜墝增墟墠墡墢墣墤墥墦墧墨墩墪墫墬墭墮墯墰墱墲墳墴墵墶墷墸墹墺墻墼墽墾墿壀壁壂壃壄壅壆壇壈壉壊壋壌壍壎壏壐壑壒壓壔壕壖壗壘壙壚壛壜壝壞壟壠壡壢壣壤壥壦壧壨壩壪士壬壭壮壯声壱売壳壴壵壶壷壸壹壺壻壼壽壾壿妀妁如妃妄妅妆妇妈妉妊妋妌妍妎妏妐妑妒妓妔妕妖妗妘妙妚妛妜妝妞妟妠妡妢妣妤妥妦妧妨妩妪妫妬妭妮妯妰妱妲妳妴妵妶妷妸妹妺妻妼妽妾妿姀姁姂姃姄姅姆姇姈姉姊始姌姍姎姏姐姑姒姓委姕姖姗姘姙姚姛姜姝姞姟姠姡姢姣姤姥姦姧姨姩姪姫姬姭姮姯姰姱姲姳姴姵姶姷姸姹姺姻姼姽姾姿媀媁媂媃媄媅媆媇媈媉媊媋媌媍媎媏媐媑媒媓媔媕媖媗媘媙媚媛媜媝媞媟媠媡媢媣媤媥媦媧媨媩媪媫媬媭媮媯媰媱媲媳媴媵媶媷媸媹媺媻媼媽媾媿嫀嫁嫂嫃嫄嫅嫆嫇嫈嫉嫊嫋嫌嫍嫎嫏嫐嫑嫒嫓嫔嫕嫖嫗嫘嫙嫚嫛嫜嫝嫞嫟嫠嫡嫢嫣嫤嫥嫦嫧嫨嫩嫪嫫嫬嫭嫮嫯嫰嫱嫲嫳嫴嫵嫶嫷嫸嫹嫺嫻嫼嫽嫾嫿宀宁宂它宄宅宆宇守安宊宋完宍宎宏宐宑宒宓宔宕宖宗官宙定宛宜宝实実宠审客宣室宥宦宧宨宩宪宫宬宭宮宯宰宱宲害宴宵家宷宸容宺宻宼宽宾宿寀寁寂寃寄寅密寇寈寉寊寋富寍寎寏寐寑寒寓寔寕寖寗寘寙寚寛寜寝寞察寠寡寢寣寤寥實寧寨審寪寫寬寭寮寯寰寱寲寳寴寵寶寷寸对寺寻导寽対寿岀岁岂岃岄岅岆岇岈岉岊岋岌岍岎岏岐岑岒岓岔岕岖岗岘岙岚岛岜岝岞岟岠岡岢岣岤岥岦岧岨岩岪岫岬岭岮岯岰岱岲岳岴岵岶岷岸岹岺岻岼岽岾岿峀峁峂峃峄峅峆峇峈峉峊峋峌峍峎峏峐峑峒峓峔峕峖峗峘峙峚峛峜峝峞峟峠峡峢峣峤峥峦峧峨峩峪峫峬峭峮峯峰峱峲峳峴峵島峷峸峹峺峻峼峽峾峿嶀嶁嶂嶃嶄嶅嶆嶇嶈嶉嶊嶋嶌嶍嶎嶏嶐嶑嶒嶓嶔嶕嶖嶗嶘嶙嶚嶛嶜嶝嶞嶟嶠嶡嶢嶣嶤嶥嶦嶧嶨嶩嶪嶫嶬嶭嶮嶯嶰嶱嶲嶳嶴嶵嶶嶷嶸嶹嶺嶻嶼嶽嶾嶿巀巁巂巃巄巅巆巇巈巉巊巋巌巍巎巏巐巑巒巓巔巕巖巗巘巙巚巛巜川"
          \o "州巟巠巡巢巣巤工左巧巨巩巪巫巬巭差巯巰己已巳巴巵巶巷巸巹巺巻巼巽巾巿庀庁庂広庄庅庆庇庈庉床庋庌庍庎序庐庑庒库应底庖店庘庙庚庛府庝庞废庠庡庢庣庤庥度座庨庩庪庫庬庭庮庯庰庱庲庳庴庵庶康庸庹庺庻庼庽庾庿廀廁廂廃廄廅廆廇廈廉廊廋廌廍廎廏廐廑廒廓廔廕廖廗廘廙廚廛廜廝廞廟廠廡廢廣廤廥廦廧廨廩廪廫廬廭廮廯廰廱廲廳廴廵延廷廸廹建廻廼廽廾廿往征徂徃径待徆徇很徉徊律後徍徎徏徐徑徒従徔徕徖得徘徙徚徛徜徝從徟徠御徢徣徤徥徦徧徨復循徫徬徭微徯徰徱徲徳徴徵徶德徸徹徺徻徼徽徾徿忀忁忂心忄必忆忇忈忉忊忋忌忍忎忏忐忑忒忓忔忕忖志忘忙忚忛応忝忞忟忠忡忢忣忤忥忦忧忨忩忪快忬忭忮忯忰忱忲忳忴念忶忷忸忹忺忻忼忽忾忿悀悁悂悃悄悅悆悇悈悉悊悋悌悍悎悏悐悑悒悓悔悕悖悗悘悙悚悛悜悝悞悟悠悡悢患悤悥悦悧您悩悪悫悬悭悮悯悰悱悲悳悴悵悶悷悸悹悺悻悼悽悾悿惀惁惂惃惄情惆惇惈惉惊惋惌惍惎惏惐惑惒惓惔惕惖惗惘惙惚惛惜惝惞惟惠惡惢惣惤惥惦惧惨惩惪惫惬惭惮惯惰惱惲想惴惵惶惷惸惹惺惻惼惽惾惿憀憁憂憃憄憅憆憇憈憉憊憋憌憍憎憏憐憑憒憓憔憕憖憗憘憙憚憛憜憝憞憟憠憡憢憣憤憥憦憧憨憩憪憫憬憭憮憯憰憱憲憳憴憵憶憷憸憹憺憻憼憽憾憿懀懁懂懃懄懅懆懇懈應懊懋懌懍懎懏懐懑懒懓懔懕懖懗懘懙懚懛懜懝懞懟懠懡懢懣懤懥懦懧懨懩懪懫懬懭懮懯懰懱懲懳懴懵懶懷懸懹懺懻懼懽懾懿技抁抂抃抄抅抆抇抈抉把抋抌抍抎抏抐抑抒抓抔投抖抗折抙抚抛抜抝択抟抠抡抢抣护报抦抧抨抩抪披抬抭抮抯抰抱抲抳抴抵抶抷抸抹抺抻押抽抾抿拀拁拂拃拄担拆拇拈拉拊拋拌拍拎拏拐拑拒拓拔拕拖拗拘拙拚招拜拝拞拟拠拡拢拣拤拥拦拧拨择拪拫括拭拮拯拰拱拲拳拴拵拶拷拸拹拺拻拼拽拾拿掀掁掂掃掄掅掆掇授掉掊掋掌掍掎掏掐掑排掓掔掕掖掗掘掙掚掛掜掝掞掟掠採探掣掤接掦控推掩措掫掬掭掮掯掰掱掲掳掴掵掶掷掸掹掺掻掼掽掾掿揀揁揂揃揄揅揆揇揈揉揊揋揌揍揎描提揑插揓揔揕揖揗揘揙揚換揜揝揞揟揠握揢揣揤揥揦揧揨揩揪揫揬揭揮揯揰揱揲揳援揵揶揷揸揹揺揻揼揽揾揿撀撁撂撃撄撅撆撇撈撉撊撋撌撍撎撏撐撑撒撓撔撕撖撗撘撙撚撛撜撝撞撟撠撡撢撣撤撥撦撧撨撩撪撫撬播撮撯撰撱撲撳撴撵撶撷撸撹撺撻撼撽撾撿擀擁擂擃擄擅擆擇擈擉擊擋擌操擎擏擐擑擒擓擔擕擖擗擘擙據擛擜擝擞擟擠擡擢擣擤擥擦擧擨擩擪擫擬擭擮擯擰擱擲擳擴擵擶擷擸擹擺擻擼擽擾擿斀斁斂斃斄斅斆文斈斉斊斋斌斍斎斏斐斑斒斓斔斕斖斗斘料斚斛斜斝斞斟斠斡斢斣斤斥斦斧斨斩斪斫斬断斮斯新斱斲斳斴斵斶斷斸方斺斻於施斾斿旀旁旂旃旄旅旆旇旈旉旊旋旌旍旎族旐旑旒旓旔旕旖旗旘旙旚旛旜旝"
          \o "旞旟无旡既旣旤日旦旧旨早旪旫旬旭旮旯旰旱旲旳旴旵时旷旸旹旺旻旼旽旾旿暀暁暂暃暄暅暆暇暈暉暊暋暌暍暎暏暐暑暒暓暔暕暖暗暘暙暚暛暜暝暞暟暠暡暢暣暤暥暦暧暨暩暪暫暬暭暮暯暰暱暲暳暴暵暶暷暸暹暺暻暼暽暾暿曀曁曂曃曄曅曆曇曈曉曊曋曌曍曎曏曐曑曒曓曔曕曖曗曘曙曚曛曜曝曞曟曠曡曢曣曤曥曦曧曨曩曪曫曬曭曮曯曰曱曲曳更曵曶曷書曹曺曻曼曽曾替枀极枂枃构枅枆枇枈枉枊枋枌枍枎枏析枑枒枓枔枕枖林枘枙枚枛果枝枞枟枠枡枢枣枤枥枦枧枨枩枪枫枬枭枮枯枰枱枲枳枴枵架枷枸枹枺枻枼枽枾枿柀柁柂柃柄柅柆柇柈柉柊柋柌柍柎柏某柑柒染柔柕柖柗柘柙柚柛柜柝柞柟柠柡柢柣柤查柦柧柨柩柪柫柬柭柮柯柰柱柲柳柴柵柶柷柸柹柺査柼柽柾柿梀梁梂梃梄梅梆梇梈梉梊梋梌梍梎梏梐梑梒梓梔梕梖梗梘梙梚梛梜條梞梟梠梡梢梣梤梥梦梧梨梩梪梫梬梭梮梯械梱梲梳梴梵梶梷梸梹梺梻梼梽梾梿检棁棂棃棄棅棆棇棈棉棊棋棌棍棎棏棐棑棒棓棔棕棖棗棘棙棚棛棜棝棞棟棠棡棢棣棤棥棦棧棨棩棪棫棬棭森棯棰棱棲棳棴棵棶棷棸棹棺棻棼棽棾棿榀榁概榃榄榅榆榇榈榉榊榋榌榍榎榏榐榑榒榓榔榕榖榗榘榙榚榛榜榝榞榟榠榡榢榣榤榥榦榧榨榩榪榫榬榭榮榯榰榱榲榳榴榵榶榷榸榹榺榻榼榽榾榿槀槁槂槃槄槅槆槇槈槉槊構槌槍槎槏槐槑槒槓槔槕槖槗様槙槚槛槜槝槞槟槠槡槢槣槤槥槦槧槨槩槪槫槬槭槮槯槰槱槲槳槴槵槶槷槸槹槺槻槼槽槾槿檀檁檂檃檄檅檆檇檈檉檊檋檌檍檎檏檐檑檒檓檔檕檖檗檘檙檚檛檜檝檞檟檠檡檢檣檤檥檦檧檨檩檪檫檬檭檮檯檰檱檲檳檴檵檶檷檸檹檺檻檼檽檾檿櫀櫁櫂櫃櫄櫅櫆櫇櫈櫉櫊櫋櫌櫍櫎櫏櫐櫑櫒櫓櫔櫕櫖櫗櫘櫙櫚櫛櫜櫝櫞櫟櫠櫡櫢櫣櫤櫥櫦櫧櫨櫩櫪櫫櫬櫭櫮櫯櫰櫱櫲櫳櫴櫵櫶櫷櫸櫹櫺櫻櫼櫽櫾櫿殀殁殂殃殄殅殆殇殈殉殊残殌殍殎殏殐殑殒殓殔殕殖殗殘殙殚殛殜殝殞殟殠殡殢殣殤殥殦殧殨殩殪殫殬殭殮殯殰殱殲殳殴段殶殷殸殹殺殻殼殽殾殿毀毁毂毃毄毅毆毇毈毉毊毋毌母毎每毐毑毒毓比毕毖毗毘毙毚毛毜毝毞毟毠毡毢毣毤毥毦毧毨毩毪毫毬毭毮毯毰毱毲毳毴毵毶毷毸毹毺毻毼毽毾毿沀沁沂沃沄沅沆沇沈沉沊沋沌沍沎沏沐沑沒沓沔沕沖沗沘沙沚沛沜沝沞沟沠没沢沣沤沥沦沧沨沩沪沫沬沭沮沯沰沱沲河沴沵沶沷沸油沺治沼沽沾沿泀況泂泃泄泅泆泇泈泉泊泋泌泍泎泏泐泑泒泓泔法泖泗泘泙泚泛泜泝泞泟泠泡波泣泤泥泦泧注泩泪泫泬泭泮泯泰泱泲泳泴泵泶泷泸泹泺泻泼泽泾泿涀涁涂涃涄涅涆涇消涉涊涋涌涍涎涏涐涑涒涓涔涕涖涗涘涙涚涛涜涝涞涟涠涡涢涣涤涥润涧涨涩涪涫涬涭涮涯涰涱液涳涴涵涶涷涸涹涺涻涼涽涾涿淀淁淂淃淄淅淆淇淈淉淊淋淌淍淎淏淐淑淒淓淔淕淖淗淘淙淚淛淜淝"
          \o "淞淟淠淡淢淣淤淥淦淧淨淩淪淫淬淭淮淯淰深淲淳淴淵淶混淸淹淺添淼淽淾淿満溁溂溃溄溅溆溇溈溉溊溋溌溍溎溏源溑溒溓溔溕準溗溘溙溚溛溜溝溞溟溠溡溢溣溤溥溦溧溨溩溪溫溬溭溮溯溰溱溲溳溴溵溶溷溸溹溺溻溼溽溾溿滀滁滂滃滄滅滆滇滈滉滊滋滌滍滎滏滐滑滒滓滔滕滖滗滘滙滚滛滜滝滞滟滠满滢滣滤滥滦滧滨滩滪滫滬滭滮滯滰滱滲滳滴滵滶滷滸滹滺滻滼滽滾滿澀澁澂澃澄澅澆澇澈澉澊澋澌澍澎澏澐澑澒澓澔澕澖澗澘澙澚澛澜澝澞澟澠澡澢澣澤澥澦澧澨澩澪澫澬澭澮澯澰澱澲澳澴澵澶澷澸澹澺澻澼澽澾澿激濁濂濃濄濅濆濇濈濉濊濋濌濍濎濏濐濑濒濓濔濕濖濗濘濙濚濛濜濝濞濟濠濡濢濣濤濥濦濧濨濩濪濫濬濭濮濯濰濱濲濳濴濵濶濷濸濹濺濻濼濽濾濿炀炁炂炃炄炅炆炇炈炉炊炋炌炍炎炏炐炑炒炓炔炕炖炗炘炙炚炛炜炝炞炟炠炡炢炣炤炥炦炧炨炩炪炫炬炭炮炯炰炱炲炳炴炵炶炷炸点為炻炼炽炾炿烀烁烂烃烄烅烆烇烈烉烊烋烌烍烎烏烐烑烒烓烔烕烖烗烘烙烚烛烜烝烞烟烠烡烢烣烤烥烦烧烨烩烪烫烬热烮烯烰烱烲烳烴烵烶烷烸烹烺烻烼烽烾烿熀熁熂熃熄熅熆熇熈熉熊熋熌熍熎熏熐熑熒熓熔熕熖熗熘熙熚熛熜熝熞熟熠熡熢熣熤熥熦熧熨熩熪熫熬熭熮熯熰熱熲熳熴熵熶熷熸熹熺熻熼熽熾熿燀燁燂燃燄燅燆燇燈燉燊燋燌燍燎燏燐燑燒燓燔燕燖燗燘燙燚燛燜燝燞營燠燡燢燣燤燥燦燧燨燩燪燫燬燭燮燯燰燱燲燳燴燵燶燷燸燹燺燻燼燽燾燿犀犁犂犃犄犅犆犇犈犉犊犋犌犍犎犏犐犑犒犓犔犕犖犗犘犙犚犛犜犝犞犟犠犡犢犣犤犥犦犧犨犩犪犫犬犭犮犯犰犱犲犳犴犵状犷犸犹犺犻犼犽犾犿狀狁狂狃狄狅狆狇狈狉狊狋狌狍狎狏狐狑狒狓狔狕狖狗狘狙狚狛狜狝狞狟狠狡狢狣狤狥狦狧狨狩狪狫独狭狮狯狰狱狲狳狴狵狶狷狸狹狺狻狼狽狾狿玀玁玂玃玄玅玆率玈玉玊王玌玍玎玏玐玑玒玓玔玕玖玗玘玙玚玛玜玝玞玟玠玡玢玣玤玥玦玧玨玩玪玫玬玭玮环现玱玲玳玴玵玶玷玸玹玺玻玼玽玾玿珀珁珂珃珄珅珆珇珈珉珊珋珌珍珎珏珐珑珒珓珔珕珖珗珘珙珚珛珜珝珞珟珠珡珢珣珤珥珦珧珨珩珪珫珬班珮珯珰珱珲珳珴珵珶珷珸珹珺珻珼珽現珿璀璁璂璃璄璅璆璇璈璉璊璋璌璍璎璏璐璑璒璓璔璕璖璗璘璙璚璛璜璝璞璟璠璡璢璣璤璥璦璧璨璩璪璫璬璭璮璯環璱璲璳璴璵璶璷璸璹璺璻璼璽璾璿瓀瓁瓂瓃瓄瓅瓆瓇瓈瓉瓊瓋瓌瓍瓎瓏瓐瓑瓒瓓瓔瓕瓖瓗瓘瓙瓚瓛瓜瓝瓞瓟瓠瓡瓢瓣瓤瓥瓦瓧瓨瓩瓪瓫瓬瓭瓮瓯瓰瓱瓲瓳瓴瓵瓶瓷瓸瓹瓺瓻瓼瓽瓾瓿疀疁疂疃疄疅疆疇疈疉疊疋疌疍疎疏疐疑疒疓疔疕疖疗疘疙疚疛疜疝疞疟疠疡疢疣疤疥疦疧疨疩疪疫疬疭疮疯疰疱疲疳疴疵疶疷疸疹疺疻疼疽疾疿痀痁痂痃痄病痆症痈痉痊痋痌痍痎痏痐痑痒痓痔痕痖痗痘痙痚痛痜痝"
          \o "痞痟痠痡痢痣痤痥痦痧痨痩痪痫痬痭痮痯痰痱痲痳痴痵痶痷痸痹痺痻痼痽痾痿皀皁皂皃的皅皆皇皈皉皊皋皌皍皎皏皐皑皒皓皔皕皖皗皘皙皚皛皜皝皞皟皠皡皢皣皤皥皦皧皨皩皪皫皬皭皮皯皰皱皲皳皴皵皶皷皸皹皺皻皼皽皾皿盀盁盂盃盄盅盆盇盈盉益盋盌盍盎盏盐监盒盓盔盕盖盗盘盙盚盛盜盝盞盟盠盡盢監盤盥盦盧盨盩盪盫盬盭目盯盰盱盲盳直盵盶盷相盹盺盻盼盽盾盿瞀瞁瞂瞃瞄瞅瞆瞇瞈瞉瞊瞋瞌瞍瞎瞏瞐瞑瞒瞓瞔瞕瞖瞗瞘瞙瞚瞛瞜瞝瞞瞟瞠瞡瞢瞣瞤瞥瞦瞧瞨瞩瞪瞫瞬瞭瞮瞯瞰瞱瞲瞳瞴瞵瞶瞷瞸瞹瞺瞻瞼瞽瞾瞿矀矁矂矃矄矅矆矇矈矉矊矋矌矍矎矏矐矑矒矓矔矕矖矗矘矙矚矛矜矝矞矟矠矡矢矣矤知矦矧矨矩矪矫矬短矮矯矰矱矲石矴矵矶矷矸矹矺矻矼矽矾矿碀碁碂碃碄碅碆碇碈碉碊碋碌碍碎碏碐碑碒碓碔碕碖碗碘碙碚碛碜碝碞碟碠碡碢碣碤碥碦碧碨碩碪碫碬碭碮碯碰碱碲碳碴碵碶碷碸碹確碻碼碽碾碿磀磁磂磃磄磅磆磇磈磉磊磋磌磍磎磏磐磑磒磓磔磕磖磗磘磙磚磛磜磝磞磟磠磡磢磣磤磥磦磧磨磩磪磫磬磭磮磯磰磱磲磳磴磵磶磷磸磹磺磻磼磽磾磿禀禁禂禃禄禅禆禇禈禉禊禋禌禍禎福禐禑禒禓禔禕禖禗禘禙禚禛禜禝禞禟禠禡禢禣禤禥禦禧禨禩禪禫禬禭禮禯禰禱禲禳禴禵禶禷禸禹禺离禼禽禾禿秀私秂秃秄秅秆秇秈秉秊秋秌种秎秏秐科秒秓秔秕秖秗秘秙秚秛秜秝秞租秠秡秢秣秤秥秦秧秨秩秪秫秬秭秮积称秱秲秳秴秵秶秷秸秹秺移秼秽秾秿窀突窂窃窄窅窆窇窈窉窊窋窌窍窎窏窐窑窒窓窔窕窖窗窘窙窚窛窜窝窞窟窠窡窢窣窤窥窦窧窨窩窪窫窬窭窮窯窰窱窲窳窴窵窶窷窸窹窺窻窼窽窾窿竀竁竂竃竄竅竆竇竈竉竊立竌竍竎竏竐竑竒竓竔竕竖竗竘站竚竛竜竝竞竟章竡竢竣竤童竦竧竨竩竪竫竬竭竮端竰竱竲竳竴竵競竷竸竹竺竻竼竽竾竿简箁箂箃箄箅箆箇箈箉箊箋箌箍箎箏箐箑箒箓箔箕箖算箘箙箚箛箜箝箞箟箠管箢箣箤箥箦箧箨箩箪箫箬箭箮箯箰箱箲箳箴箵箶箷箸箹箺箻箼箽箾箿節篁篂篃範篅篆篇篈築篊篋篌篍篎篏篐篑篒篓篔篕篖篗篘篙篚篛篜篝篞篟篠篡篢篣篤篥篦篧篨篩篪篫篬篭篮篯篰篱篲篳篴篵篶篷篸篹篺篻篼篽篾篿粀粁粂粃粄粅粆粇粈粉粊粋粌粍粎粏粐粑粒粓粔粕粖粗粘粙粚粛粜粝粞粟粠粡粢粣粤粥粦粧粨粩粪粫粬粭粮粯粰粱粲粳粴粵粶粷粸粹粺粻粼粽精粿糀糁糂糃糄糅糆糇糈糉糊糋糌糍糎糏糐糑糒糓糔糕糖糗糘糙糚糛糜糝糞糟糠糡糢糣糤糥糦糧糨糩糪糫糬糭糮糯糰糱糲糳糴糵糶糷糸糹糺系糼糽糾糿綀綁綂綃綄綅綆綇綈綉綊綋綌綍綎綏綐綑綒經綔綕綖綗綘継続綛綜綝綞綟綠綡綢綣綤綥綦綧綨綩綪綫綬維綮綯綰綱網綳綴綵綶綷綸綹綺綻綼綽綾綿緀緁緂緃緄緅緆緇緈緉緊緋緌緍緎総緐緑緒緓緔緕緖緗緘緙線緛緜緝"
          \o "緞緟締緡緢緣緤緥緦緧編緩緪緫緬緭緮緯緰緱緲緳練緵緶緷緸緹緺緻緼緽緾緿纀纁纂纃纄纅纆纇纈纉纊纋續纍纎纏纐纑纒纓纔纕纖纗纘纙纚纛纜纝纞纟纠纡红纣纤纥约级纨纩纪纫纬纭纮纯纰纱纲纳纴纵纶纷纸纹纺纻纼纽纾线绀绁绂练组绅细织终绉绊绋绌绍绎经绐绑绒结绔绕绖绗绘给绚绛络绝绞统绠绡绢绣绤绥绦继绨绩绪绫绬续绮绯绰绱绲绳维绵绶绷绸绹绺绻综绽绾绿羀羁羂羃羄羅羆羇羈羉羊羋羌羍美羏羐羑羒羓羔羕羖羗羘羙羚羛羜羝羞羟羠羡羢羣群羥羦羧羨義羪羫羬羭羮羯羰羱羲羳羴羵羶羷羸羹羺羻羼羽羾羿翀翁翂翃翄翅翆翇翈翉翊翋翌翍翎翏翐翑習翓翔翕翖翗翘翙翚翛翜翝翞翟翠翡翢翣翤翥翦翧翨翩翪翫翬翭翮翯翰翱翲翳翴翵翶翷翸翹翺翻翼翽翾翿肀肁肂肃肄肅肆肇肈肉肊肋肌肍肎肏肐肑肒肓肔肕肖肗肘肙肚肛肜肝肞肟肠股肢肣肤肥肦肧肨肩肪肫肬肭肮肯肰肱育肳肴肵肶肷肸肹肺肻肼肽肾肿胀胁胂胃胄胅胆胇胈胉胊胋背胍胎胏胐胑胒胓胔胕胖胗胘胙胚胛胜胝胞胟胠胡胢胣胤胥胦胧胨胩胪胫胬胭胮胯胰胱胲胳胴胵胶胷胸胹胺胻胼能胾胿膀膁膂膃膄膅膆膇膈膉膊膋膌膍膎膏膐膑膒膓膔膕膖膗膘膙膚膛膜膝膞膟膠膡膢膣膤膥膦膧膨膩膪膫膬膭膮膯膰膱膲膳膴膵膶膷膸膹膺膻膼膽膾膿臀臁臂臃臄臅臆臇臈臉臊臋臌臍臎臏臐臑臒臓臔臕臖臗臘臙臚臛臜臝臞臟臠臡臢臣臤臥臦臧臨臩自臫臬臭臮臯臰臱臲至致臵臶臷臸臹臺臻臼臽臾臿芀芁节芃芄芅芆芇芈芉芊芋芌芍芎芏芐芑芒芓芔芕芖芗芘芙芚芛芜芝芞芟芠芡芢芣芤芥芦芧芨芩芪芫芬芭芮芯芰花芲芳芴芵芶芷芸芹芺芻芼芽芾芿苀苁苂苃苄苅苆苇苈苉苊苋苌苍苎苏苐苑苒苓苔苕苖苗苘苙苚苛苜苝苞苟苠苡苢苣苤若苦苧苨苩苪苫苬苭苮苯苰英苲苳苴苵苶苷苸苹苺苻苼苽苾苿莀莁莂莃莄莅莆莇莈莉莊莋莌莍莎莏莐莑莒莓莔莕莖莗莘莙莚莛莜莝莞莟莠莡莢莣莤莥莦莧莨莩莪莫莬莭莮莯莰莱莲莳莴莵莶获莸莹莺莻莼莽莾莿菀菁菂菃菄菅菆菇菈菉菊菋菌菍菎菏菐菑菒菓菔菕菖菗菘菙菚菛菜菝菞菟菠菡菢菣菤菥菦菧菨菩菪菫菬菭菮華菰菱菲菳菴菵菶菷菸菹菺菻菼菽菾菿蒀蒁蒂蒃蒄蒅蒆蒇蒈蒉蒊蒋蒌蒍蒎蒏蒐蒑蒒蒓蒔蒕蒖蒗蒘蒙蒚蒛蒜蒝蒞蒟蒠蒡蒢蒣蒤蒥蒦蒧蒨蒩蒪蒫蒬蒭蒮蒯蒰蒱蒲蒳蒴蒵蒶蒷蒸蒹蒺蒻蒼蒽蒾蒿蓀蓁蓂蓃蓄蓅蓆蓇蓈蓉蓊蓋蓌蓍蓎蓏蓐蓑蓒蓓蓔蓕蓖蓗蓘蓙蓚蓛蓜蓝蓞蓟蓠蓡蓢蓣蓤蓥蓦蓧蓨蓩蓪蓫蓬蓭蓮蓯蓰蓱蓲蓳蓴蓵蓶蓷蓸蓹蓺蓻蓼蓽蓾蓿薀薁薂薃薄薅薆薇薈薉薊薋薌薍薎薏薐薑薒薓薔薕薖薗薘薙薚薛薜薝薞薟薠薡薢薣薤薥薦薧薨薩薪薫薬薭薮薯薰薱薲薳薴薵薶薷薸薹薺薻薼薽薾薿藀藁藂藃藄藅藆藇藈藉藊藋藌藍藎藏藐藑藒藓藔藕藖藗藘藙藚藛藜藝"
          \o "藞藟藠藡藢藣藤藥藦藧藨藩藪藫藬藭藮藯藰藱藲藳藴藵藶藷藸藹藺藻藼藽藾藿蚀蚁蚂蚃蚄蚅蚆蚇蚈蚉蚊蚋蚌蚍蚎蚏蚐蚑蚒蚓蚔蚕蚖蚗蚘蚙蚚蚛蚜蚝蚞蚟蚠蚡蚢蚣蚤蚥蚦蚧蚨蚩蚪蚫蚬蚭蚮蚯蚰蚱蚲蚳蚴蚵蚶蚷蚸蚹蚺蚻蚼蚽蚾蚿蛀蛁蛂蛃蛄蛅蛆蛇蛈蛉蛊蛋蛌蛍蛎蛏蛐蛑蛒蛓蛔蛕蛖蛗蛘蛙蛚蛛蛜蛝蛞蛟蛠蛡蛢蛣蛤蛥蛦蛧蛨蛩蛪蛫蛬蛭蛮蛯蛰蛱蛲蛳蛴蛵蛶蛷蛸蛹蛺蛻蛼蛽蛾蛿螀螁螂螃螄螅螆螇螈螉螊螋螌融螎螏螐螑螒螓螔螕螖螗螘螙螚螛螜螝螞螟螠螡螢螣螤螥螦螧螨螩螪螫螬螭螮螯螰螱螲螳螴螵螶螷螸螹螺螻螼螽螾螿蟀蟁蟂蟃蟄蟅蟆蟇蟈蟉蟊蟋蟌蟍蟎蟏蟐蟑蟒蟓蟔蟕蟖蟗蟘蟙蟚蟛蟜蟝蟞蟟蟠蟡蟢蟣蟤蟥蟦蟧蟨蟩蟪蟫蟬蟭蟮蟯蟰蟱蟲蟳蟴蟵蟶蟷蟸蟹蟺蟻蟼蟽蟾蟿袀袁袂袃袄袅袆袇袈袉袊袋袌袍袎袏袐袑袒袓袔袕袖袗袘袙袚袛袜袝袞袟袠袡袢袣袤袥袦袧袨袩袪被袬袭袮袯袰袱袲袳袴袵袶袷袸袹袺袻袼袽袾袿裀裁裂裃裄装裆裇裈裉裊裋裌裍裎裏裐裑裒裓裔裕裖裗裘裙裚裛補裝裞裟裠裡裢裣裤裥裦裧裨裩裪裫裬裭裮裯裰裱裲裳裴裵裶裷裸裹裺裻裼製裾裿覀要覂覃覄覅覆覇覈覉覊見覌覍覎規覐覑覒覓覔覕視覗覘覙覚覛覜覝覞覟覠覡覢覣覤覥覦覧覨覩親覫覬覭覮覯覰覱覲観覴覵覶覷覸覹覺覻覼覽覾覿觀见观觃规觅视觇览觉觊觋觌觍觎觏觐觑角觓觔觕觖觗觘觙觚觛觜觝觞觟觠觡觢解觤觥触觧觨觩觪觫觬觭觮觯觰觱觲觳觴觵觶觷觸觹觺觻觼觽觾觿誀誁誂誃誄誅誆誇誈誉誊誋誌認誎誏誐誑誒誓誔誕誖誗誘誙誚誛誜誝語誟誠誡誢誣誤誥誦誧誨誩說誫説読誮誯誰誱課誳誴誵誶誷誸誹誺誻誼誽誾調諀諁諂諃諄諅諆談諈諉諊請諌諍諎諏諐諑諒諓諔諕論諗諘諙諚諛諜諝諞諟諠諡諢諣諤諥諦諧諨諩諪諫諬諭諮諯諰諱諲諳諴諵諶諷諸諹諺諻諼諽諾諿讀讁讂讃讄讅讆讇讈讉變讋讌讍讎讏讐讑讒讓讔讕讖讗讘讙讚讛讜讝讞讟讠计订讣认讥讦讧讨让讪讫讬训议讯记讱讲讳讴讵讶讷许讹论讻讼讽设访诀证诂诃评诅识诇诈诉诊诋诌词诎诏诐译诒诓诔试诖诗诘诙诚诛诜话诞诟诠诡询诣诤该详诧诨诩诪诫诬语诮误诰诱诲诳说诵诶请诸诹诺读诼诽课诿貀貁貂貃貄貅貆貇貈貉貊貋貌貍貎貏貐貑貒貓貔貕貖貗貘貙貚貛貜貝貞貟負財貢貣貤貥貦貧貨販貪貫責貭貮貯貰貱貲貳貴貵貶買貸貹貺費貼貽貾貿賀賁賂賃賄賅賆資賈賉賊賋賌賍賎賏賐賑賒賓賔賕賖賗賘賙賚賛賜賝賞賟賠賡賢賣賤賥賦賧賨賩質賫賬賭賮賯賰賱賲賳賴賵賶賷賸賹賺賻購賽賾賿趀趁趂趃趄超趆趇趈趉越趋趌趍趎趏趐趑趒趓趔趕趖趗趘趙趚趛趜趝趞趟趠趡趢趣趤趥趦趧趨趩趪趫趬趭趮趯趰趱趲足趴趵趶趷趸趹趺趻趼趽趾趿跀跁跂跃跄跅跆跇跈跉跊跋跌跍跎跏跐跑跒跓跔跕跖跗跘跙跚跛跜距"
          \o "跞跟跠跡跢跣跤跥跦跧跨跩跪跫跬跭跮路跰跱跲跳跴践跶跷跸跹跺跻跼跽跾跿躀躁躂躃躄躅躆躇躈躉躊躋躌躍躎躏躐躑躒躓躔躕躖躗躘躙躚躛躜躝躞躟躠躡躢躣躤躥躦躧躨躩躪身躬躭躮躯躰躱躲躳躴躵躶躷躸躹躺躻躼躽躾躿軀軁軂軃軄軅軆軇軈軉車軋軌軍軎軏軐軑軒軓軔軕軖軗軘軙軚軛軜軝軞軟軠軡転軣軤軥軦軧軨軩軪軫軬軭軮軯軰軱軲軳軴軵軶軷軸軹軺軻軼軽軾軿辀辁辂较辄辅辆辇辈辉辊辋辌辍辎辏辐辑辒输辔辕辖辗辘辙辚辛辜辝辞辟辠辡辢辣辤辥辦辧辨辩辪辫辬辭辮辯辰辱農辳辴辵辶辷辸边辺辻込辽达辿迀迁迂迃迄迅迆过迈迉迊迋迌迍迎迏运近迒迓返迕迖迗还这迚进远违连迟迠迡迢迣迤迥迦迧迨迩迪迫迬迭迮迯述迱迲迳迴迵迶迷迸迹迺迻迼追迾迿邀邁邂邃還邅邆邇邈邉邊邋邌邍邎邏邐邑邒邓邔邕邖邗邘邙邚邛邜邝邞邟邠邡邢那邤邥邦邧邨邩邪邫邬邭邮邯邰邱邲邳邴邵邶邷邸邹邺邻邼邽邾邿郀郁郂郃郄郅郆郇郈郉郊郋郌郍郎郏郐郑郒郓郔郕郖郗郘郙郚郛郜郝郞郟郠郡郢郣郤郥郦郧部郩郪郫郬郭郮郯郰郱郲郳郴郵郶郷郸郹郺郻郼都郾郿醀醁醂醃醄醅醆醇醈醉醊醋醌醍醎醏醐醑醒醓醔醕醖醗醘醙醚醛醜醝醞醟醠醡醢醣醤醥醦醧醨醩醪醫醬醭醮醯醰醱醲醳醴醵醶醷醸醹醺醻醼醽醾醿釀釁釂釃釄釅釆采釈釉释釋里重野量釐金釒釓釔釕釖釗釘釙釚釛釜針釞釟釠釡釢釣釤釥釦釧釨釩釪釫釬釭釮釯釰釱釲釳釴釵釶釷釸釹釺釻釼釽釾釿銀銁銂銃銄銅銆銇銈銉銊銋銌銍銎銏銐銑銒銓銔銕銖銗銘銙銚銛銜銝銞銟銠銡銢銣銤銥銦銧銨銩銪銫銬銭銮銯銰銱銲銳銴銵銶銷銸銹銺銻銼銽銾銿鋀鋁鋂鋃鋄鋅鋆鋇鋈鋉鋊鋋鋌鋍鋎鋏鋐鋑鋒鋓鋔鋕鋖鋗鋘鋙鋚鋛鋜鋝鋞鋟鋠鋡鋢鋣鋤鋥鋦鋧鋨鋩鋪鋫鋬鋭鋮鋯鋰鋱鋲鋳鋴鋵鋶鋷鋸鋹鋺鋻鋼鋽鋾鋿鎀鎁鎂鎃鎄鎅鎆鎇鎈鎉鎊鎋鎌鎍鎎鎏鎐鎑鎒鎓鎔鎕鎖鎗鎘鎙鎚鎛鎜鎝鎞鎟鎠鎡鎢鎣鎤鎥鎦鎧鎨鎩鎪鎫鎬鎭鎮鎯鎰鎱鎲鎳鎴鎵鎶鎷鎸鎹鎺鎻鎼鎽鎾鎿鏀鏁鏂鏃鏄鏅鏆鏇鏈鏉鏊鏋鏌鏍鏎鏏鏐鏑鏒鏓鏔鏕鏖鏗鏘鏙鏚鏛鏜鏝鏞鏟鏠鏡鏢鏣鏤鏥鏦鏧鏨鏩鏪鏫鏬鏭鏮鏯鏰鏱鏲鏳鏴鏵鏶鏷鏸鏹鏺鏻鏼鏽鏾鏿钀钁钂钃钄钅钆钇针钉钊钋钌钍钎钏钐钑钒钓钔钕钖钗钘钙钚钛钜钝钞钟钠钡钢钣钤钥钦钧钨钩钪钫钬钭钮钯钰钱钲钳钴钵钶钷钸钹钺钻钼钽钾钿铀铁铂铃铄铅铆铇铈铉铊铋铌铍铎铏铐铑铒铓铔铕铖铗铘铙铚铛铜铝铞铟铠铡铢铣铤铥铦铧铨铩铪铫铬铭铮铯铰铱铲铳铴铵银铷铸铹铺铻铼铽链铿門閁閂閃閄閅閆閇閈閉閊開閌閍閎閏閐閑閒間閔閕閖閗閘閙閚閛閜閝閞閟閠閡関閣閤閥閦閧閨閩閪閫閬閭閮閯閰閱閲閳閴閵閶閷閸閹閺閻閼閽閾閿闀闁闂闃闄闅闆闇闈闉闊闋闌闍闎闏闐闑闒闓闔闕闖闗闘闙闚闛關闝"
          \o "闞闟闠闡闢闣闤闥闦闧门闩闪闫闬闭问闯闰闱闲闳间闵闶闷闸闹闺闻闼闽闾闿隀隁隂隃隄隅隆隇隈隉隊隋隌隍階随隐隑隒隓隔隕隖隗隘隙隚際障隝隞隟隠隡隢隣隤隥隦隧隨隩險隫隬隭隮隯隰隱隲隳隴隵隶隷隸隹隺隻隼隽难隿雀雁雂雃雄雅集雇雈雉雊雋雌雍雎雏雐雑雒雓雔雕雖雗雘雙雚雛雜雝雞雟雠雡離難雤雥雦雧雨雩雪雫雬雭雮雯雰雱雲雳雴雵零雷雸雹雺電雼雽雾雿鞀鞁鞂鞃鞄鞅鞆鞇鞈鞉鞊鞋鞌鞍鞎鞏鞐鞑鞒鞓鞔鞕鞖鞗鞘鞙鞚鞛鞜鞝鞞鞟鞠鞡鞢鞣鞤鞥鞦鞧鞨鞩鞪鞫鞬鞭鞮鞯鞰鞱鞲鞳鞴鞵鞶鞷鞸鞹鞺鞻鞼鞽鞾鞿韀韁韂韃韄韅韆韇韈韉韊韋韌韍韎韏韐韑韒韓韔韕韖韗韘韙韚韛韜韝韞韟韠韡韢韣韤韥韦韧韨韩韪韫韬韭韮韯韰韱韲音韴韵韶韷韸韹韺韻韼韽韾響颀颁颂颃预颅领颇颈颉颊颋颌颍颎颏颐频颒颓颔颕颖颗题颙颚颛颜额颞颟颠颡颢颣颤颥颦颧風颩颪颫颬颭颮颯颰颱颲颳颴颵颶颷颸颹颺颻颼颽颾颿飀飁飂飃飄飅飆飇飈飉飊飋飌飍风飏飐飑飒飓飔飕飖飗飘飙飚飛飜飝飞食飠飡飢飣飤飥飦飧飨飩飪飫飬飭飮飯飰飱飲飳飴飵飶飷飸飹飺飻飼飽飾飿馀馁馂馃馄馅馆馇馈馉馊馋馌馍馎馏馐馑馒馓馔馕首馗馘香馚馛馜馝馞馟馠馡馢馣馤馥馦馧馨馩馪馫馬馭馮馯馰馱馲馳馴馵馶馷馸馹馺馻馼馽馾馿駀駁駂駃駄駅駆駇駈駉駊駋駌駍駎駏駐駑駒駓駔駕駖駗駘駙駚駛駜駝駞駟駠駡駢駣駤駥駦駧駨駩駪駫駬駭駮駯駰駱駲駳駴駵駶駷駸駹駺駻駼駽駾駿骀骁骂骃骄骅骆骇骈骉骊骋验骍骎骏骐骑骒骓骔骕骖骗骘骙骚骛骜骝骞骟骠骡骢骣骤骥骦骧骨骩骪骫骬骭骮骯骰骱骲骳骴骵骶骷骸骹骺骻骼骽骾骿髀髁髂髃髄髅髆髇髈髉髊髋髌髍髎髏髐髑髒髓體髕髖髗高髙髚髛髜髝髞髟髠髡髢髣髤髥髦髧髨髩髪髫髬髭髮髯髰髱髲髳髴髵髶髷髸髹髺髻髼髽髾髿鮀鮁鮂鮃鮄鮅鮆鮇鮈鮉鮊鮋鮌鮍鮎鮏鮐鮑鮒鮓鮔鮕鮖鮗鮘鮙鮚鮛鮜鮝鮞鮟鮠鮡鮢鮣鮤鮥鮦鮧鮨鮩鮪鮫鮬鮭鮮鮯鮰鮱鮲鮳鮴鮵鮶鮷鮸鮹鮺鮻鮼鮽鮾鮿鯀鯁鯂鯃鯄鯅鯆鯇鯈鯉鯊鯋鯌鯍鯎鯏鯐鯑鯒鯓鯔鯕鯖鯗鯘鯙鯚鯛鯜鯝鯞鯟鯠鯡鯢鯣鯤鯥鯦鯧鯨鯩鯪鯫鯬鯭鯮鯯鯰鯱鯲鯳鯴鯵鯶鯷鯸鯹鯺鯻鯼鯽鯾鯿鲀鲁鲂鲃鲄鲅鲆鲇鲈鲉鲊鲋鲌鲍鲎鲏鲐鲑鲒鲓鲔鲕鲖鲗鲘鲙鲚鲛鲜鲝鲞鲟鲠鲡鲢鲣鲤鲥鲦鲧鲨鲩鲪鲫鲬鲭鲮鲯鲰鲱鲲鲳鲴鲵鲶鲷鲸鲹鲺鲻鲼鲽鲾鲿鳀鳁鳂鳃鳄鳅鳆鳇鳈鳉鳊鳋鳌鳍鳎鳏鳐鳑鳒鳓鳔鳕鳖鳗鳘鳙鳚鳛鳜鳝鳞鳟鳠鳡鳢鳣鳤鳥鳦鳧鳨鳩鳪鳫鳬鳭鳮鳯鳰鳱鳲鳳鳴鳵鳶鳷鳸鳹鳺鳻鳼鳽鳾鳿鶀鶁鶂鶃鶄鶅鶆鶇鶈鶉鶊鶋鶌鶍鶎鶏鶐鶑鶒鶓鶔鶕鶖鶗鶘鶙鶚鶛鶜鶝鶞鶟鶠鶡鶢鶣鶤鶥鶦鶧鶨鶩鶪鶫鶬鶭鶮鶯鶰鶱鶲鶳鶴鶵鶶鶷鶸鶹鶺鶻鶼鶽鶾鶿鷀鷁鷂鷃鷄鷅鷆鷇鷈鷉鷊鷋鷌鷍鷎鷏鷐鷑鷒鷓鷔鷕鷖鷗鷘鷙鷚鷛鷜鷝"
          \o "鷞鷟鷠鷡鷢鷣鷤鷥鷦鷧鷨鷩鷪鷫鷬鷭鷮鷯鷰鷱鷲鷳鷴鷵鷶鷷鷸鷹鷺鷻鷼鷽鷾鷿麀麁麂麃麄麅麆麇麈麉麊麋麌麍麎麏麐麑麒麓麔麕麖麗麘麙麚麛麜麝麞麟麠麡麢麣麤麥麦麧麨麩麪麫麬麭麮麯麰麱麲麳麴麵麶麷麸麹麺麻麼麽麾麿黀黁黂黃黄黅黆黇黈黉黊黋黌黍黎黏黐黑黒黓黔黕黖黗默黙黚黛黜黝點黟黠黡黢黣黤黥黦黧黨黩黪黫黬黭黮黯黰黱黲黳黴黵黶黷黸黹黺黻黼黽黾黿龀龁龂龃龄龅龆龇龈龉龊龋龌龍龎龏龐龑龒龓龔龕龖龗龘龙龚龛龜龝龞龟龠龡龢龣龤龥龦龧龨龩龪龫龬龭龮龯龰龱龲龳龴龵龶龷龸龹龺龻龼龽龾龿鿀鿁鿂鿃鿄鿅鿆鿇鿈鿉鿊鿋鿌鿍鿎鿏鿐鿑鿒鿓鿔鿕鿖鿗鿘鿙鿚鿛鿜鿝鿞鿟鿠鿡鿢鿣鿤鿥鿦鿧鿨鿩鿪鿫鿬鿭鿮鿯鿰鿱鿲鿳鿴鿵鿶鿷鿸鿹鿺鿻鿼鿽鿾鿿ꂀꂁꂂꂃꂄꂅꂆꂇꂈꂉꂊꂋꂌꂍꂎꂏꂐꂑꂒꂓꂔꂕꂖꂗꂘꂙꂚꂛꂜꂝꂞꂟꂠꂡꂢꂣꂤꂥꂦꂧꂨꂩꂪꂫꂬꂭꂮꂯꂰꂱꂲꂳꂴꂵꂶꂷꂸꂹꂺꂻꂼꂽꂾꂿꃀꃁꃂꃃꃄꃅꃆꃇꃈꃉꃊꃋꃌꃍꃎꃏꃐꃑꃒꃓꃔꃕꃖꃗꃘꃙꃚꃛꃜꃝꃞꃟꃠꃡꃢꃣꃤꃥꃦꃧꃨꃩꃪꃫꃬꃭꃮꃯꃰꃱꃲꃳꃴꃵꃶꃷꃸꃹꃺꃻꃼꃽꃾꃿꆀꆁꆂꆃꆄꆅꆆꆇꆈꆉꆊꆋꆌꆍꆎꆏꆐꆑꆒꆓꆔꆕꆖꆗꆘꆙꆚꆛꆜꆝꆞꆟꆠꆡꆢꆣꆤꆥꆦꆧꆨꆩꆪꆫꆬꆭꆮꆯꆰꆱꆲꆳꆴꆵꆶꆷꆸꆹꆺꆻꆼꆽꆾꆿꇀꇁꇂꇃꇄꇅꇆꇇꇈꇉꇊꇋꇌꇍꇎꇏꇐꇑꇒꇓꇔꇕꇖꇗꇘꇙꇚꇛꇜꇝꇞꇟꇠꇡꇢꇣꇤꇥꇦꇧꇨꇩꇪꇫꇬꇭꇮꇯꇰꇱꇲꇳꇴꇵꇶꇷꇸꇹꇺꇻꇼꇽꇾꇿꊀꊁꊂꊃꊄꊅꊆꊇꊈꊉꊊꊋꊌꊍꊎꊏꊐꊑꊒꊓꊔꊕꊖꊗꊘꊙꊚꊛꊜꊝꊞꊟꊠꊡꊢꊣꊤꊥꊦꊧꊨꊩꊪꊫꊬꊭꊮꊯꊰꊱꊲꊳꊴꊵꊶꊷꊸꊹꊺꊻꊼꊽꊾꊿꋀꋁꋂꋃꋄꋅꋆꋇꋈꋉꋊꋋꋌꋍꋎꋏꋐꋑꋒꋓꋔꋕꋖꋗꋘꋙꋚꋛꋜꋝꋞꋟꋠꋡꋢꋣꋤꋥꋦꋧꋨꋩꋪꋫꋬꋭꋮꋯꋰꋱꋲꋳꋴꋵꋶꋷꋸꋹꋺꋻꋼꋽꋾꋿꎀꎁꎂꎃꎄꎅꎆꎇꎈꎉꎊꎋꎌꎍꎎꎏꎐꎑꎒꎓꎔꎕꎖꎗꎘꎙꎚꎛꎜꎝꎞꎟꎠꎡꎢꎣꎤꎥꎦꎧꎨꎩꎪꎫꎬꎭꎮꎯꎰꎱꎲꎳꎴꎵꎶꎷꎸꎹꎺꎻꎼꎽꎾꎿꏀꏁꏂꏃꏄꏅꏆꏇꏈꏉꏊꏋꏌꏍꏎꏏꏐꏑꏒꏓꏔꏕꏖꏗꏘꏙꏚꏛꏜꏝꏞꏟꏠꏡꏢꏣꏤꏥꏦꏧꏨꏩꏪꏫꏬꏭꏮꏯꏰꏱꏲꏳꏴꏵꏶꏷꏸꏹꏺꏻꏼꏽꏾꏿꒀꒁꒂꒃꒄꒅꒆꒇꒈꒉꒊꒋꒌꓐꓑꓒꓓꓔꓕꓖꓗꓘꓙꓚꓛꓜꓝꓞꓟꓠꓡꓢꓣꓤꓥꓦꓧꓨꓩꓪꓫꓬꓭꓮꓯꓰꓱꓲꓳꓴꓵꓶꓷꓸꓹꓺꓻꓼꓽꖀꖁꖂꖃꖄꖅꖆꖇꖈꖉꖊꖋꖌꖍꖎꖏꖐꖑꖒꖓꖔꖕꖖꖗꖘꖙꖚꖛꖜꖝꖞꖟꖠꖡꖢꖣꖤꖥꖦꖧꖨꖩꖪꖫꖬꖭꖮꖯꖰꖱꖲꖳꖴꖵꖶꖷꖸꖹꖺꖻꖼꖽꖾꖿꗀꗁꗂꗃꗄꗅꗆꗇꗈꗉꗊꗋꗌꗍꗎꗏꗐꗑꗒꗓꗔꗕꗖꗗꗘꗙꗚꗛꗜꗝꗞꗟꗠꗡꗢꗣꗤꗥꗦꗧꗨꗩꗪꗫꗬꗭꗮꗯꗰꗱꗲꗳꗴꗵꗶꗷꗸꗹꗺꗻꗼꗽꗾꗿꚀꚁꚂꚃꚄꚅꚆꚇꚈꚉꚊꚋꚌꚍꚎꚏꚐꚑꚒꚓꚔꚕꚖꚗꚘꚙꚚꚛꚜꚝꚠꚡꚢꚣꚤ"
          \o "ꚥꚦꚧꚨꚩꚪꚫꚬꚭꚮꚯꚰꚱꚲꚳꚴꚵꚶꚷꚸꚹꚺꚻꚼꚽꚾꚿꛀꛁꛂꛃꛄꛅꛆꛇꛈꛉꛊꛋꛌꛍꛎꛏꛐꛑꛒꛓꛔꛕꛖꛗꛘꛙꛚꛛꛜꛝꛞꛟꛠꛡꛢꛣꛤꛥꛦꛧꛨꛩꛪꛫꛬꛭꛮꛯꞀꞁꞂꞃꞄꞅꞆꞇꞈꞋꞌꞍꞎꞏꞐꞑꞒꞓꞔꞕꞖꞗꞘꞙꞚꞛꞜꞝꞞꞟꞠꞡꞢꞣꞤꞥꞦꞧꞨꞩꞪꞫꞬꞭꞮꞯꞰꞱꞲꞳꞴꞵꞶꞷꞸꞹꞺꞻꞼꞽꞾꞿꟀꟁꟂꟃꟄꟅꟆꟇꟈꟉꟊꟐꟑꟓꟕꟖꟗꟘꟙꟲꟳꟴꟵꟶꟷꟸꟹꟺꟻꟼꟽꟾꟿꢂꢃꢄꢅꢆꢇꢈꢉꢊꢋꢌꢍꢎꢏꢐꢑꢒꢓꢔꢕꢖꢗꢘꢙꢚꢛꢜꢝꢞꢟꢠꢡꢢꢣꢤꢥꢦꢧꢨꢩꢪꢫꢬꢭꢮꢯꢰꢱꢲꢳꣲꣳꣴꣵꣶꣷꣻꣽꣾꦄꦅꦆꦇꦈꦉꦊꦋꦌꦍꦎꦏꦐꦑꦒꦓꦔꦕꦖꦗꦘꦙꦚꦛꦜꦝꦞꦟꦠꦡꦢꦣꦤꦥꦦꦧꦨꦩꦪꦫꦬꦭꦮꦯꦰꦱꦲꧏꧠꧡꧢꧣꧤꧦꧧꧨꧩꧪꧫꧬꧭꧮꧯꧺꧻꧼꧽꧾꪀꪁꪂꪃꪄꪅꪆꪇꪈꪉꪊꪋꪌꪍꪎꪏꪐꪑꪒꪓꪔꪕꪖꪗꪘꪙꪚꪛꪜꪝꪞꪟꪠꪡꪢꪣꪤꪥꪦꪧꪨꪩꪪꪫꪬꪭꪮꪯꪱꪵꪶꪹꪺꪻꪼꪽꫀꫂꫛꫜꫝꫠꫡꫢꫣꫤꫥꫦꫧꫨꫩꫪꫲꫳꫴꮀꮁꮂꮃꮄꮅꮆꮇꮈꮉꮊꮋꮌꮍꮎꮏꮐꮑꮒꮓꮔꮕꮖꮗꮘꮙꮚꮛꮜꮝꮞꮟꮠꮡꮢꮣꮤꮥꮦꮧꮨꮩꮪꮫꮬꮭꮮꮯꮰꮱꮲꮳꮴꮵꮶꮷꮸꮹꮺꮻꮼꮽꮾꮿꯀꯁꯂꯃꯄꯅꯆꯇꯈꯉꯊꯋꯌꯍꯎꯏꯐꯑꯒꯓꯔꯕꯖꯗꯘꯙꯚꯛꯜꯝꯞꯟꯠꯡꯢ검겁겂것겄겅겆겇겈겉겊겋게겍겎겏겐겑겒겓겔겕겖겗겘겙겚겛겜겝겞겟겠겡겢겣겤겥겦겧겨격겪겫견겭겮겯결겱겲겳겴겵겶겷겸겹겺겻겼경겾겿곀곁곂곃계곅곆곇곈곉곊곋곌곍곎곏곐곑곒곓곔곕곖곗곘곙곚곛곜곝곞곟고곡곢곣곤곥곦곧골곩곪곫곬곭곮곯곰곱곲곳곴공곶곷곸곹곺곻과곽곾곿궀궁궂궃궄궅궆궇궈궉궊궋권궍궎궏궐궑궒궓궔궕궖궗궘궙궚궛궜궝궞궟궠궡궢궣궤궥궦궧궨궩궪궫궬궭궮궯궰궱궲궳궴궵궶궷궸궹궺궻궼궽궾궿귀귁귂귃귄귅귆귇귈귉귊귋귌귍귎귏귐귑귒귓귔귕귖귗귘귙귚귛규귝귞귟균귡귢귣귤귥귦귧귨귩귪귫귬귭귮귯귰귱귲귳귴귵귶귷그극귺귻근귽귾귿꺀꺁꺂꺃꺄꺅꺆꺇꺈꺉꺊꺋꺌꺍꺎꺏꺐꺑꺒꺓꺔꺕꺖꺗꺘꺙꺚꺛꺜꺝꺞꺟꺠꺡꺢꺣꺤꺥꺦꺧꺨꺩꺪꺫꺬꺭꺮꺯꺰꺱꺲꺳꺴꺵꺶꺷꺸꺹꺺꺻꺼꺽꺾꺿껀껁껂껃껄껅껆껇껈껉껊껋껌껍껎껏껐껑껒껓껔껕껖껗께껙껚껛껜껝껞껟껠껡껢껣껤껥껦껧껨껩껪껫껬껭껮껯껰껱껲껳껴껵껶껷껸껹껺껻껼껽껾껿꾀꾁꾂꾃꾄꾅꾆꾇꾈꾉꾊꾋꾌꾍꾎꾏꾐꾑꾒꾓꾔꾕꾖꾗꾘꾙꾚꾛꾜꾝꾞꾟꾠꾡꾢꾣꾤꾥꾦꾧꾨꾩꾪꾫꾬꾭꾮꾯꾰꾱꾲꾳꾴꾵꾶꾷꾸꾹꾺꾻꾼꾽꾾꾿꿀꿁꿂꿃꿄꿅꿆꿇꿈꿉꿊꿋꿌꿍꿎꿏꿐꿑꿒꿓꿔꿕꿖꿗꿘꿙꿚꿛꿜꿝꿞꿟꿠꿡꿢꿣꿤꿥꿦꿧꿨꿩꿪꿫꿬꿭꿮꿯꿰꿱꿲꿳꿴꿵꿶꿷꿸꿹꿺꿻꿼꿽꿾꿿낀낁낂낃낄낅낆낇낈낉낊낋낌낍낎낏낐낑낒낓낔낕낖낗나낙낚낛난낝낞낟날낡낢낣낤낥낦낧남"
          \o "납낪낫났낭낮낯낰낱낲낳내낵낶낷낸낹낺낻낼낽낾낿냀냁냂냃냄냅냆냇냈냉냊냋냌냍냎냏냐냑냒냓냔냕냖냗냘냙냚냛냜냝냞냟냠냡냢냣냤냥냦냧냨냩냪냫냬냭냮냯냰냱냲냳냴냵냶냷냸냹냺냻냼냽냾냿놀놁놂놃놄놅놆놇놈놉놊놋놌농놎놏놐놑높놓놔놕놖놗놘놙놚놛놜놝놞놟놠놡놢놣놤놥놦놧놨놩놪놫놬놭놮놯놰놱놲놳놴놵놶놷놸놹놺놻놼놽놾놿뇀뇁뇂뇃뇄뇅뇆뇇뇈뇉뇊뇋뇌뇍뇎뇏뇐뇑뇒뇓뇔뇕뇖뇗뇘뇙뇚뇛뇜뇝뇞뇟뇠뇡뇢뇣뇤뇥뇦뇧뇨뇩뇪뇫뇬뇭뇮뇯뇰뇱뇲뇳뇴뇵뇶뇷뇸뇹뇺뇻뇼뇽뇾뇿늀늁늂늃늄늅늆늇늈늉늊늋늌늍늎늏느늑늒늓는늕늖늗늘늙늚늛늜늝늞늟늠늡늢늣늤능늦늧늨늩늪늫늬늭늮늯늰늱늲늳늴늵늶늷늸늹늺늻늼늽늾늿닀닁닂닃닄닅닆닇니닉닊닋닌닍닎닏닐닑닒닓닔닕닖닗님닙닚닛닜닝닞닟닠닡닢닣다닥닦닧단닩닪닫달닭닮닯닰닱닲닳담답닶닷닸당닺닻닼닽닾닿뎀뎁뎂뎃뎄뎅뎆뎇뎈뎉뎊뎋뎌뎍뎎뎏뎐뎑뎒뎓뎔뎕뎖뎗뎘뎙뎚뎛뎜뎝뎞뎟뎠뎡뎢뎣뎤뎥뎦뎧뎨뎩뎪뎫뎬뎭뎮뎯뎰뎱뎲뎳뎴뎵뎶뎷뎸뎹뎺뎻뎼뎽뎾뎿돀돁돂돃도독돆돇돈돉돊돋돌돍돎돏돐돑돒돓돔돕돖돗돘동돚돛돜돝돞돟돠돡돢돣돤돥돦돧돨돩돪돫돬돭돮돯돰돱돲돳돴돵돶돷돸돹돺돻돼돽돾돿뒀뒁뒂뒃뒄뒅뒆뒇뒈뒉뒊뒋뒌뒍뒎뒏뒐뒑뒒뒓뒔뒕뒖뒗뒘뒙뒚뒛뒜뒝뒞뒟뒠뒡뒢뒣뒤뒥뒦뒧뒨뒩뒪뒫뒬뒭뒮뒯뒰뒱뒲뒳뒴뒵뒶뒷뒸뒹뒺뒻뒼뒽뒾뒿듀듁듂듃듄듅듆듇듈듉듊듋듌듍듎듏듐듑듒듓듔듕듖듗듘듙듚듛드득듞듟든듡듢듣들듥듦듧듨듩듪듫듬듭듮듯듰등듲듳듴듵듶듷듸듹듺듻듼듽듾듿떀떁떂떃떄떅떆떇떈떉떊떋떌떍떎떏떐떑떒떓떔떕떖떗떘떙떚떛떜떝떞떟떠떡떢떣떤떥떦떧떨떩떪떫떬떭떮떯떰떱떲떳떴떵떶떷떸떹떺떻떼떽떾떿뗀뗁뗂뗃뗄뗅뗆뗇뗈뗉뗊뗋뗌뗍뗎뗏뗐뗑뗒뗓뗔뗕뗖뗗뗘뗙뗚뗛뗜뗝뗞뗟뗠뗡뗢뗣뗤뗥뗦뗧뗨뗩뗪뗫뗬뗭뗮뗯뗰뗱뗲뗳뗴뗵뗶뗷뗸뗹뗺뗻뗼뗽뗾뗿뚀뚁뚂뚃뚄뚅뚆뚇뚈뚉뚊뚋뚌뚍뚎뚏뚐뚑뚒뚓뚔뚕뚖뚗뚘뚙뚚뚛뚜뚝뚞뚟뚠뚡뚢뚣뚤뚥뚦뚧뚨뚩뚪뚫뚬뚭뚮뚯뚰뚱뚲뚳뚴뚵뚶뚷뚸뚹뚺뚻뚼뚽뚾뚿뛀뛁뛂뛃뛄뛅뛆뛇뛈뛉뛊뛋뛌뛍뛎뛏뛐뛑뛒뛓뛔뛕뛖뛗뛘뛙뛚뛛뛜뛝뛞뛟뛠뛡뛢뛣뛤뛥뛦뛧뛨뛩뛪뛫뛬뛭뛮뛯뛰뛱뛲뛳뛴뛵뛶뛷뛸뛹뛺뛻뛼뛽뛾뛿란랁랂랃랄랅랆랇랈랉랊랋람랍랎랏랐랑랒랓랔랕랖랗래랙랚랛랜랝랞랟랠랡랢랣랤랥랦랧램랩랪랫랬랭랮랯랰랱랲랳랴략랶랷랸랹랺랻랼랽랾랿럀럁럂럃럄럅럆럇럈량럊럋럌럍럎럏럐럑럒럓럔럕럖럗럘럙럚럛럜럝럞럟럠럡럢럣럤럥럦럧럨럩럪럫러럭럮럯런럱럲럳럴럵럶럷럸럹럺럻럼럽럾럿뢀뢁뢂뢃뢄뢅뢆뢇뢈뢉뢊뢋뢌뢍뢎뢏뢐뢑뢒뢓뢔뢕뢖뢗뢘뢙뢚뢛뢜뢝뢞뢟뢠뢡뢢뢣뢤뢥뢦뢧뢨"
          \o "뢩뢪뢫뢬뢭뢮뢯뢰뢱뢲뢳뢴뢵뢶뢷뢸뢹뢺뢻뢼뢽뢾뢿룀룁룂룃룄룅룆룇룈룉룊룋료룍룎룏룐룑룒룓룔룕룖룗룘룙룚룛룜룝룞룟룠룡룢룣룤룥룦룧루룩룪룫룬룭룮룯룰룱룲룳룴룵룶룷룸룹룺룻룼룽룾룿릀릁릂릃름릅릆릇릈릉릊릋릌릍릎릏릐릑릒릓릔릕릖릗릘릙릚릛릜릝릞릟릠릡릢릣릤릥릦릧릨릩릪릫리릭릮릯린릱릲릳릴릵릶릷릸릹릺릻림립릾릿맀링맂맃맄맅맆맇마막맊맋만맍많맏말맑맒맓맔맕맖맗맘맙맚맛맜망맞맟맠맡맢맣매맥맦맧맨맩맪맫맬맭맮맯맰맱맲맳맴맵맶맷맸맹맺맻맼맽맾맿몀몁몂몃몄명몆몇몈몉몊몋몌몍몎몏몐몑몒몓몔몕몖몗몘몙몚몛몜몝몞몟몠몡몢몣몤몥몦몧모목몪몫몬몭몮몯몰몱몲몳몴몵몶몷몸몹몺못몼몽몾몿뫀뫁뫂뫃뫄뫅뫆뫇뫈뫉뫊뫋뫌뫍뫎뫏뫐뫑뫒뫓뫔뫕뫖뫗뫘뫙뫚뫛뫜뫝뫞뫟뫠뫡뫢뫣뫤뫥뫦뫧뫨뫩뫪뫫뫬뫭뫮뫯뫰뫱뫲뫳뫴뫵뫶뫷뫸뫹뫺뫻뫼뫽뫾뫿뮀뮁뮂뮃뮄뮅뮆뮇뮈뮉뮊뮋뮌뮍뮎뮏뮐뮑뮒뮓뮔뮕뮖뮗뮘뮙뮚뮛뮜뮝뮞뮟뮠뮡뮢뮣뮤뮥뮦뮧뮨뮩뮪뮫뮬뮭뮮뮯뮰뮱뮲뮳뮴뮵뮶뮷뮸뮹뮺뮻뮼뮽뮾뮿므믁믂믃믄믅믆믇믈믉믊믋믌믍믎믏믐믑믒믓믔믕믖믗믘믙믚믛믜믝믞믟믠믡믢믣믤믥믦믧믨믩믪믫믬믭믮믯믰믱믲믳믴믵믶믷미믹믺믻민믽믾믿벀벁벂벃버벅벆벇번벉벊벋벌벍벎벏벐벑벒벓범법벖벗벘벙벚벛벜벝벞벟베벡벢벣벤벥벦벧벨벩벪벫벬벭벮벯벰벱벲벳벴벵벶벷벸벹벺벻벼벽벾벿변볁볂볃별볅볆볇볈볉볊볋볌볍볎볏볐병볒볓볔볕볖볗볘볙볚볛볜볝볞볟볠볡볢볣볤볥볦볧볨볩볪볫볬볭볮볯볰볱볲볳보복볶볷본볹볺볻볼볽볾볿부북붂붃분붅붆붇불붉붊붋붌붍붎붏붐붑붒붓붔붕붖붗붘붙붚붛붜붝붞붟붠붡붢붣붤붥붦붧붨붩붪붫붬붭붮붯붰붱붲붳붴붵붶붷붸붹붺붻붼붽붾붿뷀뷁뷂뷃뷄뷅뷆뷇뷈뷉뷊뷋뷌뷍뷎뷏뷐뷑뷒뷓뷔뷕뷖뷗뷘뷙뷚뷛뷜뷝뷞뷟뷠뷡뷢뷣뷤뷥뷦뷧뷨뷩뷪뷫뷬뷭뷮뷯뷰뷱뷲뷳뷴뷵뷶뷷뷸뷹뷺뷻뷼뷽뷾뷿뺀뺁뺂뺃뺄뺅뺆뺇뺈뺉뺊뺋뺌뺍뺎뺏뺐뺑뺒뺓뺔뺕뺖뺗뺘뺙뺚뺛뺜뺝뺞뺟뺠뺡뺢뺣뺤뺥뺦뺧뺨뺩뺪뺫뺬뺭뺮뺯뺰뺱뺲뺳뺴뺵뺶뺷뺸뺹뺺뺻뺼뺽뺾뺿뻀뻁뻂뻃뻄뻅뻆뻇뻈뻉뻊뻋뻌뻍뻎뻏뻐뻑뻒뻓뻔뻕뻖뻗뻘뻙뻚뻛뻜뻝뻞뻟뻠뻡뻢뻣뻤뻥뻦뻧뻨뻩뻪뻫뻬뻭뻮뻯뻰뻱뻲뻳뻴뻵뻶뻷뻸뻹뻺뻻뻼뻽뻾뻿뾀뾁뾂뾃뾄뾅뾆뾇뾈뾉뾊뾋뾌뾍뾎뾏뾐뾑뾒뾓뾔뾕뾖뾗뾘뾙뾚뾛뾜뾝뾞뾟뾠뾡뾢뾣뾤뾥뾦뾧뾨뾩뾪뾫뾬뾭뾮뾯뾰뾱뾲뾳뾴뾵뾶뾷뾸뾹뾺뾻뾼뾽뾾뾿뿀뿁뿂뿃뿄뿅뿆뿇뿈뿉뿊뿋뿌뿍뿎뿏뿐뿑뿒뿓뿔뿕뿖뿗뿘뿙뿚뿛뿜뿝뿞뿟뿠뿡뿢뿣뿤뿥뿦뿧뿨뿩뿪뿫뿬뿭뿮뿯뿰뿱뿲뿳뿴뿵뿶뿷뿸뿹뿺뿻뿼뿽뿾뿿삀삁삂삃삄삅삆삇삈삉삊삋삌삍삎삏삐삑삒삓삔삕삖삗삘삙삚삛삜삝삞삟삠삡삢삣삤삥삦삧삨"
          \o "삩삪삫사삭삮삯산삱삲삳살삵삶삷삸삹삺삻삼삽삾삿샀상샂샃샄샅샆샇새색샊샋샌샍샎샏샐샑샒샓샔샕샖샗샘샙샚샛샜생샞샟샠샡샢샣샤샥샦샧샨샩샪샫샬샭샮샯샰샱샲샳샴샵샶샷샸샹샺샻샼샽샾샿솀솁솂솃솄솅솆솇솈솉솊솋소속솎솏손솑솒솓솔솕솖솗솘솙솚솛솜솝솞솟솠송솢솣솤솥솦솧솨솩솪솫솬솭솮솯솰솱솲솳솴솵솶솷솸솹솺솻솼솽솾솿쇀쇁쇂쇃쇄쇅쇆쇇쇈쇉쇊쇋쇌쇍쇎쇏쇐쇑쇒쇓쇔쇕쇖쇗쇘쇙쇚쇛쇜쇝쇞쇟쇠쇡쇢쇣쇤쇥쇦쇧쇨쇩쇪쇫쇬쇭쇮쇯쇰쇱쇲쇳쇴쇵쇶쇷쇸쇹쇺쇻쇼쇽쇾쇿슀슁슂슃슄슅슆슇슈슉슊슋슌슍슎슏슐슑슒슓슔슕슖슗슘슙슚슛슜슝슞슟슠슡슢슣스슥슦슧슨슩슪슫슬슭슮슯슰슱슲슳슴습슶슷슸승슺슻슼슽슾슿싀싁싂싃싄싅싆싇싈싉싊싋싌싍싎싏싐싑싒싓싔싕싖싗싘싙싚싛시식싞싟신싡싢싣실싥싦싧싨싩싪싫심십싮싯싰싱싲싳싴싵싶싷싸싹싺싻싼싽싾싿쎀쎁쎂쎃쎄쎅쎆쎇쎈쎉쎊쎋쎌쎍쎎쎏쎐쎑쎒쎓쎔쎕쎖쎗쎘쎙쎚쎛쎜쎝쎞쎟쎠쎡쎢쎣쎤쎥쎦쎧쎨쎩쎪쎫쎬쎭쎮쎯쎰쎱쎲쎳쎴쎵쎶쎷쎸쎹쎺쎻쎼쎽쎾쎿쏀쏁쏂쏃쏄쏅쏆쏇쏈쏉쏊쏋쏌쏍쏎쏏쏐쏑쏒쏓쏔쏕쏖쏗쏘쏙쏚쏛쏜쏝쏞쏟쏠쏡쏢쏣쏤쏥쏦쏧쏨쏩쏪쏫쏬쏭쏮쏯쏰쏱쏲쏳쏴쏵쏶쏷쏸쏹쏺쏻쏼쏽쏾쏿쒀쒁쒂쒃쒄쒅쒆쒇쒈쒉쒊쒋쒌쒍쒎쒏쒐쒑쒒쒓쒔쒕쒖쒗쒘쒙쒚쒛쒜쒝쒞쒟쒠쒡쒢쒣쒤쒥쒦쒧쒨쒩쒪쒫쒬쒭쒮쒯쒰쒱쒲쒳쒴쒵쒶쒷쒸쒹쒺쒻쒼쒽쒾쒿쓀쓁쓂쓃쓄쓅쓆쓇쓈쓉쓊쓋쓌쓍쓎쓏쓐쓑쓒쓓쓔쓕쓖쓗쓘쓙쓚쓛쓜쓝쓞쓟쓠쓡쓢쓣쓤쓥쓦쓧쓨쓩쓪쓫쓬쓭쓮쓯쓰쓱쓲쓳쓴쓵쓶쓷쓸쓹쓺쓻쓼쓽쓾쓿얀얁얂얃얄얅얆얇얈얉얊얋얌얍얎얏얐양얒얓얔얕얖얗얘얙얚얛얜얝얞얟얠얡얢얣얤얥얦얧얨얩얪얫얬얭얮얯얰얱얲얳어억얶얷언얹얺얻얼얽얾얿엀엁엂엃엄업없엇었엉엊엋엌엍엎엏에엑엒엓엔엕엖엗엘엙엚엛엜엝엞엟엠엡엢엣엤엥엦엧엨엩엪엫여역엮엯연엱엲엳열엵엶엷엸엹엺엻염엽엾엿욀욁욂욃욄욅욆욇욈욉욊욋욌욍욎욏욐욑욒욓요욕욖욗욘욙욚욛욜욝욞욟욠욡욢욣욤욥욦욧욨용욪욫욬욭욮욯우욱욲욳운욵욶욷울욹욺욻욼욽욾욿움웁웂웃웄웅웆웇웈웉웊웋워웍웎웏원웑웒웓월웕웖웗웘웙웚웛웜웝웞웟웠웡웢웣웤웥웦웧웨웩웪웫웬웭웮웯웰웱웲웳웴웵웶웷웸웹웺웻웼웽웾웿잀잁잂잃임입잆잇있잉잊잋잌잍잎잏자작잒잓잔잕잖잗잘잙잚잛잜잝잞잟잠잡잢잣잤장잦잧잨잩잪잫재잭잮잯잰잱잲잳잴잵잶잷잸잹잺잻잼잽잾잿쟀쟁쟂쟃쟄쟅쟆쟇쟈쟉쟊쟋쟌쟍쟎쟏쟐쟑쟒쟓쟔쟕쟖쟗쟘쟙쟚쟛쟜쟝쟞쟟쟠쟡쟢쟣쟤쟥쟦쟧쟨쟩쟪쟫쟬쟭쟮쟯쟰쟱쟲쟳쟴쟵쟶쟷쟸쟹쟺쟻쟼쟽쟾쟿좀좁좂좃좄종좆좇좈좉좊좋좌좍좎좏좐좑좒좓좔좕좖좗좘좙좚좛좜좝좞좟좠좡좢좣좤좥좦좧좨"
          \o "좩좪좫좬좭좮좯좰좱좲좳좴좵좶좷좸좹좺좻좼좽좾좿죀죁죂죃죄죅죆죇죈죉죊죋죌죍죎죏죐죑죒죓죔죕죖죗죘죙죚죛죜죝죞죟죠죡죢죣죤죥죦죧죨죩죪죫죬죭죮죯죰죱죲죳죴죵죶죷죸죹죺죻주죽죾죿즀즁즂즃즄즅즆즇즈즉즊즋즌즍즎즏즐즑즒즓즔즕즖즗즘즙즚즛즜증즞즟즠즡즢즣즤즥즦즧즨즩즪즫즬즭즮즯즰즱즲즳즴즵즶즷즸즹즺즻즼즽즾즿지직짂짃진짅짆짇질짉짊짋짌짍짎짏짐집짒짓짔징짖짗짘짙짚짛짜짝짞짟짠짡짢짣짤짥짦짧짨짩짪짫짬짭짮짯짰짱짲짳짴짵짶짷째짹짺짻짼짽짾짿쪀쪁쪂쪃쪄쪅쪆쪇쪈쪉쪊쪋쪌쪍쪎쪏쪐쪑쪒쪓쪔쪕쪖쪗쪘쪙쪚쪛쪜쪝쪞쪟쪠쪡쪢쪣쪤쪥쪦쪧쪨쪩쪪쪫쪬쪭쪮쪯쪰쪱쪲쪳쪴쪵쪶쪷쪸쪹쪺쪻쪼쪽쪾쪿쫀쫁쫂쫃쫄쫅쫆쫇쫈쫉쫊쫋쫌쫍쫎쫏쫐쫑쫒쫓쫔쫕쫖쫗쫘쫙쫚쫛쫜쫝쫞쫟쫠쫡쫢쫣쫤쫥쫦쫧쫨쫩쫪쫫쫬쫭쫮쫯쫰쫱쫲쫳쫴쫵쫶쫷쫸쫹쫺쫻쫼쫽쫾쫿쮀쮁쮂쮃쮄쮅쮆쮇쮈쮉쮊쮋쮌쮍쮎쮏쮐쮑쮒쮓쮔쮕쮖쮗쮘쮙쮚쮛쮜쮝쮞쮟쮠쮡쮢쮣쮤쮥쮦쮧쮨쮩쮪쮫쮬쮭쮮쮯쮰쮱쮲쮳쮴쮵쮶쮷쮸쮹쮺쮻쮼쮽쮾쮿쯀쯁쯂쯃쯄쯅쯆쯇쯈쯉쯊쯋쯌쯍쯎쯏쯐쯑쯒쯓쯔쯕쯖쯗쯘쯙쯚쯛쯜쯝쯞쯟쯠쯡쯢쯣쯤쯥쯦쯧쯨쯩쯪쯫쯬쯭쯮쯯쯰쯱쯲쯳쯴쯵쯶쯷쯸쯹쯺쯻쯼쯽쯾쯿첀첁첂첃첄첅첆첇첈첉첊첋첌첍첎첏첐첑첒첓첔첕첖첗처척첚첛천첝첞첟철첡첢첣첤첥첦첧첨첩첪첫첬청첮첯첰첱첲첳체첵첶첷첸첹첺첻첼첽첾첿쳀쳁쳂쳃쳄쳅쳆쳇쳈쳉쳊쳋쳌쳍쳎쳏쳐쳑쳒쳓쳔쳕쳖쳗쳘쳙쳚쳛쳜쳝쳞쳟쳠쳡쳢쳣쳤쳥쳦쳧쳨쳩쳪쳫쳬쳭쳮쳯쳰쳱쳲쳳쳴쳵쳶쳷쳸쳹쳺쳻쳼쳽쳾쳿춀춁춂춃춄춅춆춇춈춉춊춋춌춍춎춏춐춑춒춓추축춖춗춘춙춚춛출춝춞춟춠춡춢춣춤춥춦춧춨충춪춫춬춭춮춯춰춱춲춳춴춵춶춷춸춹춺춻춼춽춾춿췀췁췂췃췄췅췆췇췈췉췊췋췌췍췎췏췐췑췒췓췔췕췖췗췘췙췚췛췜췝췞췟췠췡췢췣췤췥췦췧취췩췪췫췬췭췮췯췰췱췲췳췴췵췶췷췸췹췺췻췼췽췾췿캀캁캂캃캄캅캆캇캈캉캊캋캌캍캎캏캐캑캒캓캔캕캖캗캘캙캚캛캜캝캞캟캠캡캢캣캤캥캦캧캨캩캪캫캬캭캮캯캰캱캲캳캴캵캶캷캸캹캺캻캼캽캾캿컀컁컂컃컄컅컆컇컈컉컊컋컌컍컎컏컐컑컒컓컔컕컖컗컘컙컚컛컜컝컞컟컠컡컢컣커컥컦컧컨컩컪컫컬컭컮컯컰컱컲컳컴컵컶컷컸컹컺컻컼컽컾컿쾀쾁쾂쾃쾄쾅쾆쾇쾈쾉쾊쾋쾌쾍쾎쾏쾐쾑쾒쾓쾔쾕쾖쾗쾘쾙쾚쾛쾜쾝쾞쾟쾠쾡쾢쾣쾤쾥쾦쾧쾨쾩쾪쾫쾬쾭쾮쾯쾰쾱쾲쾳쾴쾵쾶쾷쾸쾹쾺쾻쾼쾽쾾쾿쿀쿁쿂쿃쿄쿅쿆쿇쿈쿉쿊쿋쿌쿍쿎쿏쿐쿑쿒쿓쿔쿕쿖쿗쿘쿙쿚쿛쿜쿝쿞쿟쿠쿡쿢쿣쿤쿥쿦쿧쿨쿩쿪쿫쿬쿭쿮쿯쿰쿱쿲쿳쿴쿵쿶쿷쿸쿹쿺쿻쿼쿽쿾쿿킀킁킂킃킄킅킆킇킈킉킊킋킌킍킎킏킐킑킒킓킔킕킖킗킘킙킚킛킜킝킞킟킠킡킢킣키킥킦킧킨"
          \o "킩킪킫킬킭킮킯킰킱킲킳킴킵킶킷킸킹킺킻킼킽킾킿타탁탂탃탄탅탆탇탈탉탊탋탌탍탎탏탐탑탒탓탔탕탖탗탘탙탚탛태택탞탟탠탡탢탣탤탥탦탧탨탩탪탫탬탭탮탯탰탱탲탳탴탵탶탷탸탹탺탻탼탽탾탿톀톁톂톃톄톅톆톇톈톉톊톋톌톍톎톏톐톑톒톓톔톕톖톗톘톙톚톛톜톝톞톟토톡톢톣톤톥톦톧톨톩톪톫톬톭톮톯톰톱톲톳톴통톶톷톸톹톺톻톼톽톾톿퇀퇁퇂퇃퇄퇅퇆퇇퇈퇉퇊퇋퇌퇍퇎퇏퇐퇑퇒퇓퇔퇕퇖퇗퇘퇙퇚퇛퇜퇝퇞퇟퇠퇡퇢퇣퇤퇥퇦퇧퇨퇩퇪퇫퇬퇭퇮퇯퇰퇱퇲퇳퇴퇵퇶퇷퇸퇹퇺퇻퇼퇽퇾퇿튀튁튂튃튄튅튆튇튈튉튊튋튌튍튎튏튐튑튒튓튔튕튖튗튘튙튚튛튜튝튞튟튠튡튢튣튤튥튦튧튨튩튪튫튬튭튮튯튰튱튲튳튴튵튶튷트특튺튻튼튽튾튿틀틁틂틃틄틅틆틇틈틉틊틋틌틍틎틏틐틑틒틓틔틕틖틗틘틙틚틛틜틝틞틟틠틡틢틣틤틥틦틧틨틩틪틫틬틭틮틯티틱틲틳틴틵틶틷틸틹틺틻틼틽틾틿펀펁펂펃펄펅펆펇펈펉펊펋펌펍펎펏펐펑펒펓펔펕펖펗페펙펚펛펜펝펞펟펠펡펢펣펤펥펦펧펨펩펪펫펬펭펮펯펰펱펲펳펴펵펶펷편펹펺펻펼펽펾펿폀폁폂폃폄폅폆폇폈평폊폋폌폍폎폏폐폑폒폓폔폕폖폗폘폙폚폛폜폝폞폟폠폡폢폣폤폥폦폧폨폩폪폫포폭폮폯폰폱폲폳폴폵폶폷폸폹폺폻폼폽폾폿풀풁풂풃풄풅풆풇품풉풊풋풌풍풎풏풐풑풒풓풔풕풖풗풘풙풚풛풜풝풞풟풠풡풢풣풤풥풦풧풨풩풪풫풬풭풮풯풰풱풲풳풴풵풶풷풸풹풺풻풼풽풾풿퓀퓁퓂퓃퓄퓅퓆퓇퓈퓉퓊퓋퓌퓍퓎퓏퓐퓑퓒퓓퓔퓕퓖퓗퓘퓙퓚퓛퓜퓝퓞퓟퓠퓡퓢퓣퓤퓥퓦퓧퓨퓩퓪퓫퓬퓭퓮퓯퓰퓱퓲퓳퓴퓵퓶퓷퓸퓹퓺퓻퓼퓽퓾퓿햀햁햂햃햄햅햆햇했행햊햋햌햍햎햏햐햑햒햓햔햕햖햗햘햙햚햛햜햝햞햟햠햡햢햣햤향햦햧햨햩햪햫햬햭햮햯햰햱햲햳햴햵햶햷햸햹햺햻햼햽햾햿헀헁헂헃헄헅헆헇허헉헊헋헌헍헎헏헐헑헒헓헔헕헖헗험헙헚헛헜헝헞헟헠헡헢헣헤헥헦헧헨헩헪헫헬헭헮헯헰헱헲헳헴헵헶헷헸헹헺헻헼헽헾헿횀횁횂횃횄횅횆횇횈횉횊횋회획횎횏횐횑횒횓횔횕횖횗횘횙횚횛횜횝횞횟횠횡횢횣횤횥횦횧효횩횪횫횬횭횮횯횰횱횲횳횴횵횶횷횸횹횺횻횼횽횾횿훀훁훂훃후훅훆훇훈훉훊훋훌훍훎훏훐훑훒훓훔훕훖훗훘훙훚훛훜훝훞훟훠훡훢훣훤훥훦훧훨훩훪훫훬훭훮훯훰훱훲훳훴훵훶훷훸훹훺훻훼훽훾훿힀힁힂힃힄힅힆힇히힉힊힋힌힍힎힏힐힑힒힓힔힕힖힗힘힙힚힛힜힝힞힟힠힡힢힣ힰힱힲힳힴힵힶힷힸힹힺힻힼힽힾힿퟀퟁퟂퟃퟄퟅퟆퟋퟌퟍퟎퟏퟐퟑퟒퟓퟔퟕퟖퟗퟘퟙퟚퟛퟜퟝퟞퟟퟠퟡퟢퟣퟤퟥퟦퟧퟨퟩퟪퟫퟬퟭퟮퟯퟰퟱퟲퟳퟴퟵퟶퟷퟸퟹퟺퟻ呂女廬旅濾礪閭驪麗黎力曆歷轢年憐戀撚漣煉璉秊練聯輦蓮連鍊列劣咽烈裂說廉念捻殮簾獵令囹寧嶺怜玲瑩羚聆鈴零靈領例禮醴隸惡了僚寮"
          \o "尿料樂燎療蓼遼龍暈阮劉杻柳流溜琉留硫紐類六戮陸倫崙淪輪律慄栗率隆利吏履易李梨泥理痢罹裏裡里離匿溺吝燐璘藺隣鱗麟林淋臨立笠粒狀炙識什茶刺婢嬨廒廙彩徭惘慎愈憎慠懲戴揄搜摒敖晴朗望杖歹殺流滛滋漢瀞煮瞧爵犯猪瑱甆画瘝瘟益盛直睊着磌窱節类絛練缾者荒華蝹襁覆視調諸請謁諾諭謹變贈輸遲醙鉶陼難靖韛響頋頻鬒龜𢡊𢡄𣏕㮝䀘䀹𥉉𥳐𧻓齃龎ﮀﮁﮂﮃﮄﮅﮆﮇﮈﮉﮊﮋﮌﮍﮎﮏﮐﮑﮒﮓﮔﮕﮖﮗﮘﮙﮚﮛﮜﮝﮞﮟﮠﮡﮢﮣﮤﮥﮦﮧﮨﮩﮪﮫﮬﮭﮮﮯﮰﮱﯓﯔﯕﯖﯗﯘﯙﯚﯛﯜﯝﯞﯟﯠﯡﯢﯣﯤﯥﯦﯧﯨﯩﯪﯫﯬﯭﯮﯯﯰﯱﯲﯳﯴﯵﯶﯷﯸﯹﯺﯻﯼﯽﯾﯿﲀﲁﲂﲃﲄﲅﲆﲇﲈﲉﲊﲋﲌﲍﲎﲏﲐﲑﲒﲓﲔﲕﲖﲗﲘﲙﲚﲛﲜﲝﲞﲟﲠﲡﲢﲣﲤﲥﲦﲧﲨﲩﲪﲫﲬﲭﲮﲯﲰﲱﲲﲳﲴﲵﲶﲷﲸﲹﲺﲻﲼﲽﲾﲿﳀﳁﳂﳃﳄﳅﳆﳇﳈﳉﳊﳋﳌﳍﳎﳏﳐﳑﳒﳓﳔﳕﳖﳗﳘﳙﳚﳛﳜﳝﳞﳟﳠﳡﳢﳣﳤﳥﳦﳧﳨﳩﳪﳫﳬﳭﳮﳯﳰﳱﳲﳳﳴﳵﳶﳷﳸﳹﳺﳻﳼﳽﳾﳿﶀﶁﶂﶃﶄﶅﶆﶇﶈﶉﶊﶋﶌﶍﶎﶏﶒﶓﶔﶕﶖﶗﶘﶙﶚﶛﶜﶝﶞﶟﶠﶡﶢﶣﶤﶥﶦﶧﶨﶩﶪﶫﶬﶭﶮﶯﶰﶱﶲﶳﶴﶵﶶﶷﶸﶹﶺﶻﶼﶽﶾﶿﷀﷁﷂﷃﷄﷅﷆﷇﷰﷱﷲﷳﷴﷵﷶﷷﷸﷹﺀﺁﺂﺃﺄﺅﺆﺇﺈﺉﺊﺋﺌﺍﺎﺏﺐﺑﺒﺓﺔﺕﺖﺗﺘﺙﺚﺛﺜﺝﺞﺟﺠﺡﺢﺣﺤﺥﺦﺧﺨﺩﺪﺫﺬﺭﺮﺯﺰﺱﺲﺳﺴﺵﺶﺷﺸﺹﺺﺻﺼﺽﺾﺿﻀﻁﻂﻃﻄﻅﻆﻇﻈﻉﻊﻋﻌﻍﻎﻏﻐﻑﻒﻓﻔﻕﻖﻗﻘﻙﻚﻛﻜﻝﻞﻟﻠﻡﻢﻣﻤﻥﻦﻧﻨﻩﻪﻫﻬﻭﻮﻯﻰﻱﻲﻳﻴﻵﻶﻷﻸﻹﻺﻻﻼﾀﾁﾂﾃﾄﾅﾆﾇﾈﾉﾊﾋﾌﾍﾎﾏﾐﾑﾒﾓﾔﾕﾖﾗﾘﾙﾚﾛﾜﾝﾠﾡﾢﾣﾤﾥﾦﾧﾨﾩﾪﾫﾬﾭﾮﾯﾰﾱﾲﾳﾴﾵﾶﾷﾸﾹﾺﾻﾼﾽﾾￂￃￄￅￆￇￊￋￌￍￎￏￒￓￔￕￖￗￚￛￜ")

\* the characters beyond 255 that can only follow in an identifier
\* (XID_Continue and not XID_Start): marks, digits, connectors
IdContinueWide ==
    Chars("·ְֱֲֳִֵֶַָׇֹֺֻּֽֿׁׂ֑֖֛֢֣֤֥֦֧֪ׅۣ۪ۭ֚֭֮҃҄҅҆҇֒֓֔֕֗֘֙֜֝֞֟֠֡֨֩֫֬֯ׄۖۗۘۙۚۛۜ۟۠ۡۢۤۧۨ۫۬۰۱۲۳۴۵۶۷۸۹ަާިީުޫެޭޮޯް߀߁߂߃߄߅߆߇߈߉ࣰࣱࣲ߲߽࢙࢚࢛࣏࣐࣑࣒࣓ࣣࣦࣩ࣭࣮࣯ࣶࣹࣺ߫߬߭߮߯߰߱߳࢘࢜࢝࢞࢟࣊࣋࣌࣍࣎ࣔࣕࣖࣗࣘࣙࣚࣛࣜࣝࣞࣟ࣠࣡ࣤࣥࣧࣨ࣪࣫࣬ࣳࣴࣵࣷࣸࣻࣼࣽࣾࣿঁংঃ়ািীুূৃৄেৈোৌ্ৗৢৣ০১২৩৪৫৬৭৮৯৾ઁંઃ઼ાિીુૂૃૄૅેૈૉોૌ્ૢૣ૦૧૨૩૪૫૬૭૮૯ૺૻૼ૽૾૿ஂாிீுூெேைொோௌ்ௗ௦௧௨௩௪௫௬௭௮௯ಁಂಃ಼ಾಿೀುೂೃೄೆೇೈೊೋೌ್ೕೖೢೣ೦೧೨೩೪೫೬೭೮೯ඁංඃ්ාැෑිීුූෘෙේෛොෝෞෟ෦෧෨෩෪෫෬෭෮෯ෲෳັຳິີຶື຺ຸູົຼ່້໊໋໌ໍ໐໑໒໓໔໕໖໗໘໙྄ཱྀྀྂྃ྆྇ྍྎྏྐྑྒྒྷྔྕྖྗྙྚྛྜྜྷྞྟྠྡྡྷྣྤྥྦྦྷྨྩྪྫྫྷྭྮྯྰྱྲླྴྵྶྷྸྐྵྺྻྼ࿆ႂႃႄႅႆႇႈႉႊႋႌႍႏ႐႑႒႓႔႕႖႗႘႙ႚႛႜႝ឴឵ាិីឹឺុូួើឿៀេែៃោៅំះៈ៉៊់៌៍៎៏័៑្៓៝០១២៣៤៥៦៧៨៩ᢩ᧐᧑᧒᧓᧔᧕᧖᧗᧘᧙᧚᪀᪁᪂᪃᪄᪅᪆᪇᪈᪉᪐᪑᪒᪓᪔᪕᪖᪗᪘᪙᪵᪶᪷᪸᪹᪺᪽ᪿᫀ᫃᫄᫊᪰᪱᪲᪳᪴᪻᪼᫁᫂᫅᫆᫇᫈᫉᫋ᫌᫍᫎᮀᮁᮂᮡᮢᮣᮤᮥᮦᮧᮨᮩ᮪᮫ᮬᮭ᮰᮱᮲᮳᮴᮵᮶᮷᮸᮹᯦ᯧᯨᯩᯪᯫᯬᯭᯮᯯᯰᯱ᳔᯲᯳᳕᳖᳗᳘᳙᳜᳝᳞᳟᳐᳑᳒᳚᳛᳠᳡᳢᳣᳤᳥᳦᳧᳨᳭᳴᳷⃒⃓⃘⃙⃚⃥⃦⃪⃫゙゚᷐᷎᷺᷂᷊᷏᷹᷽᷿⃨⃬⃭⃮⃯᷷᷸᳸᳹᷀᷁᷃᷄᷅᷆᷇᷈᷉᷋᷌᷑᷒ᷓᷔᷕᷖᷗᷘᷙᷚᷛᷜᷝᷞᷟᷠᷡᷢᷣᷤᷥᷦᷧᷨᷩᷪᷫᷬᷭᷮᷯᷰᷱᷲᷳᷴ᷵᷻᷾⃐⃑⃔⃕⃖⃗⃛⃜⃡⃧⃩⃰⳯⳰⳱ⷠⷡⷢⷣⷤⷥⷦⷧⷨⷩⷪⷫⷬⷭⷮⷯⷰⷱⷲⷳⷴⷵⷶⷷⷸⷹⷺⷻⷼⷽⷾⷿꚞꚟ꛰꛱᷶᷼᷍ꢀꢁꢴꢵꢶꢷꢸꢹꢺꢻꢼꢽꢾꢿꣀꣁꣂꣃ꣄ꣅ꣐꣑꣒꣓꣔꣕꣖꣗꣘꣙꣠꣡꣢꣣꣤꣥꣦꣧꣨꣩꣪꣫꣬꣭꣮꣯꣰꣱ꣿꦀꦁꦂꦃ꦳ꦴꦵꦶꦷꦸꦹꦺꦻꦼꦽꦾꦿ꧀꧐꧑꧒꧓꧔꧕꧖꧗꧘꧙ꧥ꧰꧱꧲꧳꧴꧵꧶꧷꧸꧹ꪴꪰꪲꪳꪷꪸꪾ꪿꫁ꫫꫬꫭꫮꫯꫵ꫶ꯣꯤꯥꯦꯧꯨꯩꯪ꯬꯭꯰꯱꯲꯳꯴꯵꯶꯷꯸꯹ﾞﾟ")

\* the characters with a code up to 255 that can start an identifier: the
\* letters, the underscore and the letters of Latin-1
IdStartNarrow ==
    Chars("abcdefghijklmnopqrstuvwxyz")
    \cup Chars("ABCDEFGHIJKLMNOPQRSTUVWXYZ")
    \cup {"_"}
    \cup Chars("ªµºÀÁÂÃÄÅÆÇÈÉÊËÌÍÎÏÐÑÒÓÔÕÖØÙÚÛÜÝÞßàáâãäåæçèéêëìíîïðñòóôõöøùúûüýþÿ")

\* the characters that can start an identifier
IdStart == IdStartNarrow \cup IdStartWide \cup AstralLetters

\* the characters with a code up to 255 that can follow in an identifier:
\* also the digits and the middle dot (183)
IdCharNarrow == IdStartNarrow \cup Digits \cup {"·"}

\* the characters that can follow in an identifier
IdChar == IdCharNarrow \cup IdStartWide \cup IdContinueWide \cup AstralLetters

\* the characters with the codes 1 to 31, in their order
Control == "\t\n\f\r"

\* the characters with the codes 127 to 160, in their order
Delete == " "

\* the characters with a code up to 255
Narrow ==
    Chars(Control) \cup Chars(Delete) \cup {"\"", "\\", BQ}
    \cup Chars(" !#$%&'()*+,-./0123456789:;<=>?@ABCDEFGHIJKLMNOPQRSTUVWXYZ[]^_abcdefghijklmnopqrstuvwxyz{|}~")
    \cup Chars("¡¢£¤¥¦§¨©ª«¬­®¯°±²³´µ¶·¸¹º»¼½¾¿ÀÁÂÃÄÅÆÇÈÉÊËÌÍÎÏÐÑÒÓÔÕÖ×ØÙÚÛÜÝÞßàáâãäåæçèéêëìíîïðñòóôõö÷øùúûüýþÿ")

\* s.isidentifier(): a keyword is an identifier for this method
str_isidentifier(s) ==
    /\ Len(s) >= 1
    /\ point_at(s, 1) \in IdStart
    /\ \A i \in 2..Len(s) : is_trail(s, i) \/ point_at(s, i) \in IdChar

\* s[a:-b] for a >= 0, b >= 1 (0-based slice bounds)
str_slice(s, a, b) ==
    IF str_len(s) - b <= a THEN ""
    ELSE SubSeq(s, point_start(s, a + 1), point_start(s, str_len(s) - b + 1) - 1)

(***************************************************************************)
(* Collaborators of message_analyzer.py                                    *)
(***************************************************************************)
\* keyword.kwlist of the standard library
kwlist == {"False", "None", "True", "and", "as", "assert", "async", "await",
           "break", "class", "continue", "def", "del", "elif", "else",
           "except", "finally", "for", "from", "global", "if", "import", "in",
           "is", "lambda", "nonlocal", "not", "or", "pass", "raise", "return",
           "try", "while", "with", "yield"}

\* tokenize.NAME
NAME == "NAME"

\* utils.collect_tokens(line): the tokens of one line, each with its string
\* and type, blanks ignored.  A run of identifier characters is one token (a
\* number when it starts with a digit, then it also takes "."), a quoted text
\* with its closing quote is one token, any other character is a token of
\* its own.
RECURSIVE collect_tokens_from(_, _)
collect_tokens_from(line, i) ==
    IF i > Len(line) THEN <<>>
    ELSE IF Char(line, i) \in Whitespace THEN collect_tokens_from(line, i + 1)
    ELSE IF point_at(line, i) \in IdChar
    THEN LET number == Char(line, i) \in Digits
             stops == {j \in i..Len(line) :
                          /\ ~is_trail(line, j)
                          /\ point_at(line, j) \notin IdChar
                          /\ ~(number /\ Char(line, j) = ".")}
             end == IF stops = {} THEN Len(line) + 1
                    ELSE CHOOSE j \in stops : \A k \in stops : j <= k
         IN  <<[string |-> SubSeq(line, i, end - 1),
                type |-> IF number THEN "NUMBER" ELSE NAME]>>
             \o collect_tokens_from(line, end)
    ELSE IF Char(line, i) \in {"'", "\""} /\ str_find(line, Char(line, i), i + 1) /= 0
    THEN LET end == str_find(line, Char(line, i), i + 1)
         IN  <<[string |-> SubSeq(line, i, end), type |-> "STRING"]>>
             \o collect_tokens_from(line, end + 1)
    ELSE <<[string |-> point_at(line, i), type |-> "OP"]>>
         \o collect_tokens_from(line, i + point_len(line, i))

collect_tokens(line) == collect_tokens_from(line, 1)

\* bracket_analyzer.name_bracket(bracket)
name_bracket(bracket) ==
    IF bracket = ")" THEN "parenthesis " \o BQ \o ")" \o BQ
    ELSE IF bracket = "]" THEN "square bracket " \o BQ \o "]" \o BQ
    ELSE "curly bracket " \o BQ \o "}" \o BQ

(***************************************************************************)
(* The matchers of message_analyzer.py.  kw holds the keyword arguments   *)
(* analyze_message passes (message, line, linenumber, source_lines,       *)
(* offset); ext holds what the bracket analyzer answers for this source.  *)
(***************************************************************************)
assign_to_keyword_pre(message) ==
    \/ message = "can't assign to keyword"
    \/ message = "assignment to keyword"
    \/ message = "cannot assign to keyword"
    \/ message = "cannot assign to None"
    \/ message = "cannot assign to True"
    \/ message = "cannot assign to False"
    \/ message = "cannot assign to __debug__"

\* faulty variant: the line is searched for a keyword whatever the message is
assign_to_keyword_any_message(kw, ext) ==
    LET tokens == collect_tokens(kw.line)
        found == {i \in 1..Len(tokens) :
                    tokens[i].string \in kwlist \/ tokens[i].string = "__debug__"}
    IN  IF found = {} THEN Raise("FriendlyException")
        ELSE Str("You were trying to assign a value to the Python keyword '"
                 \o tokens[CHOOSE i \in found : \A j \in found : i <= j].string
                 \o "'.\nThis is not allowed.\n\n")

assign_to_keyword(kw, ext) ==
    IF ~assign_to_keyword_pre(kw.message) THEN None
    ELSE
    LET tokens == collect_tokens(kw.line)
        found == {i \in 1..Len(tokens) :
                    tokens[i].string \in kwlist \/ tokens[i].string = "__debug__"}
    IN  IF found = {} THEN Raise("FriendlyException")
        ELSE
        LET word == tokens[CHOOSE i \in found : \A j \in found : i <= j].string
        IN  IF word \in {"None", "True", "False", "__debug__"}
            THEN Str(word \o " is a constant in Python; you cannot assign it a value.\n\n")
            ELSE Str("You were trying to assign a value to the Python keyword '"
                     \o word \o "'.\nThis is not allowed.\n\n")

assign_to_function_call_pre(message) ==
    \/ message = "can't assign to function call"
    \/ message = "cannot assign to function call"

assign_to_function_call(kw, ext) ==
    IF ~assign_to_function_call_pre(kw.message) THEN None
    ELSE IF str_count(kw.line, "=") > 1
    THEN Str("You wrote an expression like\n    my_function(...) = some value\n"
             \o "where my_function(...), on the left hand-side of the equal sign, is\n"
             \o "a function call and not the name of a variable.\n")
    ELSE
    LET info == str_split(kw.line, "=")
    IN  IF Len(info) < 2 THEN Raise("IndexError")
        ELSE
        LET fn_call == str_strip(info[1])
            value == str_strip(info[2])
        IN  Str("You wrote the expression\n    " \o fn_call \o " = " \o value \o "\n"
                \o "where " \o fn_call
                \o ", on the left hand-side of the equal sign, either is\n"
                \o "or includes a function call and is not simply the name of a variable.\n")

assign_to_literal_pre(message) ==
    \/ message = "can't assign to literal"
    \/ message = "cannot assign to literal"

\* faulty variant: the swap is suggested without the test isidentifier()
assign_to_literal_suggest_always(literal, name) ==
    " Perhaps you meant to write:\n    " \o name \o " = " \o literal \o "\n\n"

\* the "Perhaps you meant to write" part of assign_to_literal
assign_to_literal_suggest(literal, name) ==
    IF str_isidentifier(name)
    THEN " Perhaps you meant to write:\n    " \o name \o " = " \o literal \o "\n\n"
    ELSE "\n"

assign_to_literal(kw, ext) ==
    IF ~assign_to_literal_pre(kw.message) THEN None
    ELSE
    LET info == str_split(kw.line, "=")
    IN  IF Len(info) < 2 THEN Raise("IndexError")
        ELSE
        LET literal == str_strip(info[1])
            name == str_strip(info[2])
        IN  Str("You wrote an expression like\n    " \o literal \o " = " \o name \o "\n"
                \o "where <" \o literal
                \o ">, on the left hand-side of the equal sign, is\n"
                \o "or includes an actual number or string (what Python calls a 'literal'),\n"
                \o "and not the name of a variable."
                \o assign_to_literal_suggest(literal, name))

break_outside_loop_text ==
    "The Python keyword 'break' can only be used "
    \o "inside a for loop or inside a while loop.\n"

break_outside_loop(kw, ext) ==
    IF str_contains("'break' outside loop", kw.message)
    THEN Str(break_outside_loop_text)
    ELSE None

continue_outside_loop(kw, ext) ==
    IF str_contains("'continue' not properly in loop", kw.message)
    THEN Str("The Python keyword 'continue' can only be used "
             \o "inside a for loop or inside a while loop.\n")
    ELSE None

delete_function_call_pre(message) ==
    \/ message = "can't delete function call"
    \/ message = "cannot delete function call"

delete_function_call(kw, ext) ==
    IF ~delete_function_call_pre(kw.message) THEN None
    ELSE
    LET tokens == collect_tokens(kw.line)
        n == Len(tokens)
        \* the conjunction is evaluated left to right and stops at the first
        \* false operand; an index past the end raises
        raises == \/ n = 0
                  \/ tokens[1].string = "del" /\ n < 2
                  \/ tokens[1].string = "del" /\ tokens[2].type = NAME /\ n < 3
        shape == /\ tokens[1].string = "del"
                 /\ tokens[2].type = NAME
                 /\ tokens[3].string = "("
                 /\ tokens[n].string = ")"
    IN  IF raises THEN Raise("IndexError")
        ELSE
        LET shown == IF shape THEN kw.line ELSE "del function()"
            correct == IF shape THEN "del " \o tokens[2].string ELSE "del function"
        IN  Str("You attempted to delete a function call\n    " \o shown \o "\n"
                \o "instead of deleting the function's name\n    " \o correct \o "\n")

eol_while_scanning_string_literal(kw, ext) ==
    IF str_contains("EOL while scanning string literal", kw.message)
    THEN Str("You starting writing a string with a single or double quote\n"
             \o "but never ended the string with another quote on that line.\n")
    ELSE None

expression_cannot_contain_assignment_text ==
    "One of the following two possibilities could be the cause:\n"
    \o "1. You meant to do a comparison with == and wrote = instead.\n"
    \o "2. You called a function with a named argument:\n\n"
    \o "       a_function(invalid=something)\n\n"
    \o "where 'invalid' is not a valid variable name in Python\n"
    \o "either because it starts with a number, or is a string,\n"
    \o "or contains a period, etc.\n"
    \o "\n"

expression_cannot_contain_assignment(kw, ext) ==
    IF str_contains("expression cannot contain assignment, perhaps you meant", kw.message)
    THEN Str(expression_cannot_contain_assignment_text)
    ELSE None

keyword_cannot_be_expression_text ==
    "You likely called a function with a named argument:\n\n"
    \o "   a_function(invalid=something)\n\n"
    \o "where 'invalid' is not a valid variable name in Python\n"
    \o "either because it starts with a number, or is a string,\n"
    \o "or contains a period, etc.\n"
    \o "\n"

keyword_cannot_be_expression(kw, ext) ==
    IF str_contains("keyword can't be an expression", kw.message)
    THEN Str(keyword_cannot_be_expression_text)
    ELSE None

invalid_character_in_identifier(kw, ext) ==
    IF str_contains("invalid character in identifier", kw.message)
    THEN Str("You likely used some unicode character that is not allowed\n"
             \o "as part of a variable name in Python.\n"
             \o "This includes many emojis.\n"
             \o "\n")
    ELSE None

\* the two regular expressions of mismatched_parenthesis; "." is any
\* character but a newline, "\d+" the longest run of decimal digits
re_closing == "closing parenthesis '"
re_opening == "' does not match opening parenthesis '"
re_on_line == "' on line "

\* the place of the second (.) for a match at position i: the first (.)
\* takes one character of the str
pattern_opening(s, i) ==
    i + Len(re_closing) + point_len(s, i + Len(re_closing)) + Len(re_opening)

\* the place of (\d+) of pattern1 for a match at position i
pattern_digits(s, i) ==
    pattern_opening(s, i) + point_len(s, pattern_opening(s, i)) + Len(re_on_line)

\* pattern2 matches at position i
pattern2_at(s, i) ==
    /\ str_startswith_at(s, re_closing, i)
    /\ i + Len(re_closing) <= Len(s) /\ Char(s, i + Len(re_closing)) /= "\n"
    /\ str_startswith_at(s, re_opening, pattern_opening(s, i) - Len(re_opening))
    /\ pattern_opening(s, i) <= Len(s) /\ Char(s, pattern_opening(s, i)) /= "\n"
    /\ str_startswith_at(s, "'", pattern_digits(s, i) - Len(re_on_line))

\* pattern1 matches at position i
pattern1_at(s, i) ==
    /\ pattern2_at(s, i)
    /\ str_startswith_at(s, re_on_line, pattern_digits(s, i) - Len(re_on_line))
    /\ pattern_digits(s, i) <= Len(s)
    /\ Char(s, pattern_digits(s, i)) \in DecimalDigits

\* re.search: the leftmost position where the pattern matches, 0 for no match
re_search1(s) ==
    LET hits == {i \in 1..Len(s) : pattern1_at(s, i)}
    IN  IF hits = {} THEN 0 ELSE CHOOSE i \in hits : \A j \in hits : i <= j

re_search2(s) ==
    LET hits == {i \in 1..Len(s) : pattern2_at(s, i)}
    IN  IF hits = {} THEN 0 ELSE CHOOSE i \in hits : \A j \in hits : i <= j

\* the digits matched by (\d+) from position d on
RECURSIVE digits_from(_, _)
digits_from(s, d) ==
    IF d <= Len(s) /\ Char(s, d) \in DecimalDigits
    THEN Char(s, d) \o digits_from(s, d + 1)
    ELSE ""

mismatched_parenthesis_pre(message) == re_search2(message) /= 0

mismatched_parenthesis(kw, ext) ==
    LET m1 == re_search1(kw.message)
        m2 == re_search2(kw.message)
    IN  IF m1 = 0 /\ m2 = 0 THEN None
        ELSE
        LET at == IF m1 /= 0 THEN m1 ELSE m2
            closing == point_at(kw.message, at + Len(re_closing))
            opening == point_at(kw.message, pattern_opening(kw.message, at))
            lineno == digits_from(kw.message, pattern_digits(kw.message, at))
            response ==
                IF m1 /= 0
                THEN "Python tells us that the closing '" \o closing
                     \o "' on the last line shown\n"
                     \o "does not match the opening '" \o opening
                     \o "' on line " \o lineno \o ".\n\n"
                ELSE "Python tells us that the closing '" \o closing
                     \o "' on the last line shown\n"
                     \o "does not match the opening '" \o opening \o "'.\n\n"
            additional_response == ext.look_for_mismatched_brackets
        IN  IF Truthy(additional_response)
            THEN Str(response \o "I will attempt to be give a bit more information.\n\n"
                     \o additional_response.s)
            ELSE Str(response)

unterminated_f_string(kw, ext) ==
    IF str_contains("f-string: unterminated string", kw.message)
    THEN Str("Inside an f-string, which is a string prefixed by the letter f, \n"
             \o "you have another string, which starts with either a\n"
             \o "single quote (') or double quote (\"), without a matching closing one.\n")
    ELSE None

name_is_parameter_and_global(kw, ext) ==
    IF ~str_contains("is parameter and global", kw.message) THEN None
    ELSE
    LET parts == str_split(kw.message, "'")
    IN  IF Len(parts) < 2 THEN Raise("IndexError")
        ELSE
        LET name == parts[2]
            newline == IF str_contains(name, kw.line) /\ str_contains("global", kw.line)
                       THEN kw.line
                       ELSE "global " \o name
        IN  Str("You are including the statement\n\n    " \o newline \o "\n\n"
                \o "indicating that '" \o name
                \o "' is a variable defined outside a function.\n"
                \o "You are also using the same '" \o name
                \o "' as an argument for that\n"
                \o "function, thus indicating that it should be variable known only\n"
                \o "inside that function, which is the contrary of what 'global' implied.\n")

\* the four "name ... global/nonlocal declaration" matchers differ by their
\* trigger and by two words of their template
name_prior_declaration(message, trigger, did, scope) ==
    IF ~str_contains(trigger, message) THEN None
    ELSE
    LET parts == str_split(message, "'")
    IN  IF Len(parts) < 2 THEN Raise("IndexError")
        ELSE Str("You " \o did \o " the variable '" \o parts[2] \o "'\n"
                 \o "before declaring it as a " \o scope \o " variable.\n")

name_assigned_to_prior_global(kw, ext) ==
    name_prior_declaration(kw.message, "is assigned to before global declaration",
                           "assigned a value to", "global")

name_used_prior_global(kw, ext) ==
    name_prior_declaration(kw.message, "is used prior to global declaration",
                           "used", "global")

name_assigned_to_prior_nonlocal(kw, ext) ==
    name_prior_declaration(kw.message, "is assigned to before nonlocal declaration",
                           "assigned a value to", "nonlocal")

name_used_prior_nonlocal(kw, ext) ==
    name_prior_declaration(kw.message, "is used prior to nonlocal declaration",
                           "used", "nonlocal")

unexpected_character_after_continuation(kw, ext) ==
    IF str_contains("unexpected character after line continuation character", kw.message)
    THEN Str("You are using the continuation character '\\' outside of a string,\n"
             \o "and it is followed by some other character(s).\n"
             \o "I am guessing that you forgot to enclose some content in a string.\n"
             \o "\n")
    ELSE None

unexpected_eof_while_parsing(kw, ext) ==
    IF ~str_contains("unexpected EOF while parsing", kw.message) THEN None
    ELSE
    LET response == "Python tells us that the it reached the end of the file\n"
                    \o "and expected more content.\n\n"
                    \o "I will attempt to be give a bit more information.\n\n"
        missing == ext.look_for_missing_bracket
    IN  \* response += <not a str>
        IF missing.t /= "str" THEN Raise("TypeError")
        ELSE Str(response \o missing.s)

unmatched_parenthesis_pre(message) ==
    \/ message = "unmatched ')'"
    \/ message = "unmatched ']'"
    \/ message = "unmatched '}'"

unmatched_parenthesis(kw, ext) ==
    IF ~unmatched_parenthesis_pre(kw.message) THEN None
    ELSE
    LET bracket == name_bracket(Char(kw.message, Len("unmatched '") + 1))
    IN  Str("The closing " \o bracket \o " on line " \o py_str(kw.linenumber)
            \o " does not match anything.\n")

position_argument_follows_keyword_arg(kw, ext) ==
    IF ~str_contains("positional argument follows keyword argument", kw.message)
    THEN None
    ELSE Str("In Python, you can call functions with only positional arguments\n\n"
             \o "    test(1, 2, 3)\n\n"
             \o "or only keyword arguments\n\n"
             \o "    test(a=1, b=2, c=3)\n\n"
             \o "or a combination of the two\n\n"
             \o "    test(1, 2, c=3)\n\n"
             \o "but with the keyword arguments appearing after all the positional ones.\n"
             \o "According to Python, you used positional arguments after keyword ones.\n")

non_default_arg_follows_default_arg(kw, ext) ==
    IF ~str_contains("non-default argument follows default argument", kw.message)
    THEN None
    ELSE Str("In Python, you can define functions with only positional arguments\n\n"
             \o "    def test(a, b, c): ...\n\n"
             \o "or only keyword arguments\n\n"
             \o "    def test(a=1, b=2, c=3): ...\n\n"
             \o "or a combination of the two\n\n"
             \o "    def test(a, b, c=3): ...\n\n"
             \o "but with the keyword arguments appearing after all the positional ones.\n"
             \o "According to Python, you used positional arguments after keyword ones.\n")

python2_print_prefix == "Missing parentheses in call to 'print'. Did you mean print("

\* message[59:-2]
python2_print_skip == 59

python2_print(kw, ext) ==
    IF ~str_startswith(kw.message, python2_print_prefix) THEN None
    ELSE Str("Perhaps you need to type print("
             \o str_slice(kw.message, python2_print_skip, 2) \o ")?\n\n"
             \o "In older version of Python, 'print' was a keyword.\n"
             \o "Now, 'print' is a function; you need to use parentheses to call it.\n")

(***************************************************************************)
(* The chain: message_analyzer.py, lines 16-41                             *)
(***************************************************************************)
\* the definitions decorated with @add_python_message, in the order in which
\* loading the module executes them
AnalyzerDefs ==
    <<"assign_to_keyword", "assign_to_function_call", "assign_to_literal",
      "break_outside_loop", "continue_outside_loop", "delete_function_call",
      "eol_while_scanning_string_literal", "expression_cannot_contain_assignment",
      "keyword_cannot_be_expression", "invalid_character_in_identifier",
      "mismatched_parenthesis", "unterminated_f_string",
      "name_is_parameter_and_global", "name_assigned_to_prior_global",
      "name_used_prior_global", "name_assigned_to_prior_nonlocal",
      "name_used_prior_nonlocal", "unexpected_character_after_continuation",
      "unexpected_eof_while_parsing", "unmatched_parenthesis",
      "position_argument_follows_keyword_arg",
      "non_default_arg_follows_default_arg", "python2_print">>

\* case(message=..., line=..., linenumber=..., source_lines=..., offset=...)
call_analyzer(case, kw, ext) ==
    CASE case = "assign_to_keyword" -> assign_to_keyword(kw, ext)
      [] case = "assign_to_function_call" -> assign_to_function_call(kw, ext)
      [] case = "assign_to_literal" -> assign_to_literal(kw, ext)
      [] case = "break_outside_loop" -> break_outside_loop(kw, ext)
      [] case = "continue_outside_loop" -> continue_outside_loop(kw, ext)
      [] case = "delete_function_call" -> delete_function_call(kw, ext)
      [] case = "eol_while_scanning_string_literal" ->
             eol_while_scanning_string_literal(kw, ext)
      [] case = "expression_cannot_contain_assignment" ->
             expression_cannot_contain_assignment(kw, ext)
      [] case = "keyword_cannot_be_expression" -> keyword_cannot_be_expression(kw, ext)
      [] case = "invalid_character_in_identifier" ->
             invalid_character_in_identifier(kw, ext)
      [] case = "mismatched_parenthesis" -> mismatched_parenthesis(kw, ext)
      [] case = "unterminated_f_string" -> unterminated_f_string(kw, ext)
      [] case = "name_is_parameter_and_global" -> name_is_parameter_and_global(kw, ext)
      [] case = "name_assigned_to_prior_global" -> name_assigned_to_prior_global(kw, ext)
      [] case = "name_used_prior_global" -> name_used_prior_global(kw, ext)
      [] case = "name_assigned_to_prior_nonlocal" ->
             name_assigned_to_prior_nonlocal(kw, ext)
      [] case = "name_used_prior_nonlocal" -> name_used_prior_nonlocal(kw, ext)
      [] case = "unexpected_character_after_continuation" ->
             unexpected_character_after_continuation(kw, ext)
      [] case = "unexpected_eof_while_parsing" -> unexpected_eof_while_parsing(kw, ext)
      [] case = "unmatched_parenthesis" -> unmatched_parenthesis(kw, ext)
      [] case = "position_argument_follows_keyword_arg" ->
             position_argument_follows_keyword_arg(kw, ext)
      [] case = "non_default_arg_follows_default_arg" ->
             non_default_arg_follows_default_arg(kw, ext)
      [] OTHER -> python2_print(kw, ext)

\* the condition on the message under which a matcher goes on to build an
\* explanation; otherwise it returns None at once
recognizes(case, message) ==
    CASE case = "assign_to_keyword" -> assign_to_keyword_pre(message)
      [] case = "assign_to_function_call" -> assign_to_function_call_pre(message)
      [] case = "assign_to_literal" -> assign_to_literal_pre(message)
      [] case = "break_outside_loop" -> str_contains("'break' outside loop", message)
      [] case = "continue_outside_loop" ->
             str_contains("'continue' not properly in loop", message)
      [] case = "delete_function_call" -> delete_function_call_pre(message)
      [] case = "eol_while_scanning_string_literal" ->
             str_contains("EOL while scanning string literal", message)
      [] case = "expression_cannot_contain_assignment" ->
             str_contains("expression cannot contain assignment, perhaps you meant", message)
      [] case = "keyword_cannot_be_expression" ->
             str_contains("keyword can't be an expression", message)
      [] case = "invalid_character_in_identifier" ->
             str_contains("invalid character in identifier", message)
      [] case = "mismatched_parenthesis" -> mismatched_parenthesis_pre(message)
      [] case = "unterminated_f_string" ->
             str_contains("f-string: unterminated string", message)
      [] case = "name_is_parameter_and_global" ->
             str_contains("is parameter and global", message)
      [] case = "name_assigned_to_prior_global" ->
             str_contains("is assigned to before global declaration", message)
      [] case = "name_used_prior_global" ->
             str_contains("is used prior to global declaration", message)
      [] case = "name_assigned_to_prior_nonlocal" ->
             str_contains("is assigned to before nonlocal declaration", message)
      [] case = "name_used_prior_nonlocal" ->
             str_contains("is used prior to nonlocal declaration", message)
      [] case = "unexpected_character_after_continuation" ->
             str_contains("unexpected character after line continuation character", message)
      [] case = "unexpected_eof_while_parsing" ->
             str_contains("unexpected EOF while parsing", message)
      [] case = "unmatched_parenthesis" -> unmatched_parenthesis_pre(message)
      [] case = "position_argument_follows_keyword_arg" ->
             str_contains("positional argument follows keyword argument", message)
      [] case = "non_default_arg_follows_default_arg" ->
             str_contains("non-default argument follows default argument", message)
      [] OTHER -> str_startswith(message, python2_print_prefix)

\* faulty variant: the decorator inserts the function at the front of the list
add_python_message_front(analyzers, func) == <<func>> \o analyzers

\* MESSAGE_ANALYZERS.append(func)
add_python_message(analyzers, func) == Append(analyzers, func)

\* for case in MESSAGE_ANALYZERS: cause = case(...); if cause: return cause
\* (an exception raised by a matcher leaves the loop and the function)
RECURSIVE analyze_message_from(_, _, _, _)
analyze_message_from(analyzers, i, kw, ext) ==
    IF i > Len(analyzers) THEN None
    ELSE LET cause == call_analyzer(analyzers[i], kw, ext)
         IN  IF IsRaise(cause) \/ Truthy(cause) THEN cause
             ELSE analyze_message_from(analyzers, i + 1, kw, ext)

\* faulty variant: the loop does not return at the first cause and keeps the
\* last one
RECURSIVE analyze_message_keep_last(_, _, _, _, _)
analyze_message_keep_last(analyzers, i, kw, ext, found) ==
    IF i > Len(analyzers) THEN found
    ELSE LET cause == call_analyzer(analyzers[i], kw, ext)
         IN  IF IsRaise(cause) THEN cause
             ELSE analyze_message_keep_last(analyzers, i + 1, kw, ext,
                                            IF Truthy(cause) THEN cause ELSE found)

analyze_message_last_match(analyzers, kw, ext) ==
    analyze_message_keep_last(analyzers, 1, kw, ext, None)

\* faulty variant: a generic text is returned when no matcher has a cause
analyze_message_with_fallback(analyzers, kw, ext) ==
    LET cause == analyze_message_from(analyzers, 1, kw, ext)
    IN  IF IsNone(cause) THEN Str("No information is known about this exception.\n")
        ELSE cause

analyze_message(analyzers, kw, ext) == analyze_message_from(analyzers, 1, kw, ext)

\* the list MESSAGE_ANALYZERS after a call of analyze_message: the function
\* and the matchers only read it
analyze_message_globals(analyzers, kw, ext) == analyzers

(***************************************************************************)
(* The cause registry and the inference engine: info_specific.py           *)
(***************************************************************************)
\* d[k] = v on a dict
dict_set(d, k, v) == [x \in DOMAIN d \cup {k} |-> IF x = k THEN v ELSE d[x]]

\* the definitions decorated with @register(error_name), in the order in
\* which loading the module executes them
HandlerDefs ==
    <<[error_name |-> "AttributeError", function |-> "_attribute_error"],
      [error_name |-> "FileNotFoundError", function |-> "file_not_found_error"],
      [error_name |-> "ImportError", function |-> "_import_error"],
      [error_name |-> "KeyError", function |-> "key_error"],
      [error_name |-> "ModuleNotFoundError", function |-> "_module_not_found_error"],
      [error_name |-> "NameError", function |-> "name_error"],
      [error_name |-> "OverflowError", function |-> "overflow_error"],
      [error_name |-> "TypeError", function |-> "_type_error"],
      [error_name |-> "UnboundLocalError", function |-> "_unbound_local_error"],
      [error_name |-> "ZeroDivisionError", function |-> "zero_division_error"]>>

\* faulty variant: a tag that has a handler keeps it
register_keep_first(registry, error_name, function) ==
    IF error_name \in DOMAIN registry THEN registry
    ELSE dict_set(registry, error_name, function)

\* register(error_name)(function): get_cause[error_name] = function
register(registry, error_name, function) == dict_set(registry, error_name, function)

\* the soft hyphen (173), the last character up to 255 that is not printable
SoftHyphen == "­"

HexDigits == "0123456789abcdef"

\* "%02x" % n
hex2(n) == Char(HexDigits, (n \div 16) + 1) \o Char(HexDigits, (n % 16) + 1)

\* "%04x" % n
hex4(n) == hex2(n \div 256) \o hex2(n % 256)

\* the place of the character c in s, 0 when it is not there
index_in(c, s) ==
    IF \E i \in 1..Len(s) : Char(s, i) = c
    THEN CHOOSE i \in 1..Len(s) : Char(s, i) = c
    ELSE 0

\* the characters beyond 255 that are not printable (str.isprintable), in
\* runs of neighbours: the code of the first one and the run
UnprintableRuns == <<
    <<896, "΀΁΂΃">>,
    <<907, "΋">>,
    <<909, "΍">>,
    <<930, "΢">>,
    <<1419, "֋֌">>,
    <<1424, "֐">>,
    <<1480, "׈׉׊׋׌׍׎׏">>,
    <<1515, "׫׬׭׮">>,
    <<1525, "׵׶׷׸׹׺׻׼׽׾׿">>,
    <<1757, "۝">>,
    <<1970, "޲޳޴޵޶޷޸޹޺޻޼޽޾޿">>,
    <<2043, "߻߼">>,
    <<2191, "࢏࢐࢑࢒࢓࢔࢕࢖ࢗ">>,
    <<2274, "࣢">>,
    <<2436, "঄">>,
    <<2445, "঍঎">>,
    <<2449, "঑঒">>,
    <<2473, "঩">>,
    <<2481, "঱">>,
    <<2483, "঳঴঵">>,
    <<2490, "঺঻">>,
    <<2501, "৅৆">>,
    <<2505, "৉৊">>,
    <<2511, "৏৐৑৒৓৔৕৖">>,
    <<2520, "৘৙৚৛">>,
    <<2526, "৞">>,
    <<2532, "৤৥">>,
    <<2559, "৿">>,
    <<2688, "઀">>,
    <<2692, "઄">>,
    <<2702, "઎">>,
    <<2706, "઒">>,
    <<2729, "઩">>,
    <<2737, "઱">>,
    <<2740, "઴">>,
    <<2746, "઺઻">>,
    <<2758, "૆">>,
    <<2762, "૊">>,
    <<2766, "૎૏">>,
    <<2769, "૑૒૓૔૕૖૗૘૙૚૛૜૝૞૟">>,
    <<2788, "૤૥">>,
    <<2802, "૲૳૴૵૶૷૸">>,
    <<2944, "஀஁">>,
    <<2948, "஄">>,
    <<2955, "஋஌஍">>,
    <<2961, "஑">>,
    <<2966, "஖஗஘">>,
    <<2971, "஛">>,
    <<2973, "஝">>,
    <<2976, "஠஡஢">>,
    <<2981, "஥஦஧">>,
    <<2987, "஫஬஭">>,
    <<3002, "஺஻஼஽">>,
    <<3011, "௃௄௅">>,
    <<3017, "௉">>,
    <<3022, "௎௏">>,
    <<3025, "௑௒௓௔௕௖">>,
    <<3032, "௘௙௚௛௜௝௞௟௠௡௢௣௤௥">>,
    <<3067, "௻௼௽௾௿">>,
    <<3213, "಍">>,
    <<3217, "಑">>,
    <<3241, "಩">>,
    <<3252, "಴">>,
    <<3258, "಺಻">>,
    <<3269, "೅">>,
    <<3273, "೉">>,
    <<3278, "೎೏೐೑೒೓೔">>,
    <<3287, "೗೘೙೚೛೜">>,
    <<3295, "೟">>,
    <<3300, "೤೥">>,
    <<3312, "೰">>,
    <<3315, "ೳ೴೵೶೷೸೹೺೻೼೽೾೿">>,
    <<3456, "඀">>,
    <<3460, "඄">>,
    <<3479, "඗඘඙">>,
    <<3506, "඲">>,
    <<3516, "඼">>,
    <<3518, "඾඿">>,
    <<3527, "෇෈෉">>,
    <<3531, "෋෌෍෎">>,
    <<3541, "෕">>,
    <<3543, "෗">>,
    <<3552, "෠෡෢෣෤෥">>,
    <<3568, "෰෱">>,
    <<3573, "෵෶෷෸෹෺෻෼෽෾෿">>,
    <<3712, "຀">>,
    <<3715, "຃">>,
    <<3717, "຅">>,
    <<3723, "຋">>,
    <<3748, "຤">>,
    <<3750, "຦">>,
    <<3774, "຾຿">>,
    <<3781, "໅">>,
    <<3783, "໇">>,
    <<3790, "໎໏">>,
    <<3802, "໚໛">>,
    <<3808, "໠໡໢໣໤໥໦໧໨໩໪໫໬໭໮໯໰໱໲໳໴໵໶໷໸໹໺໻໼໽໾໿">>,
    <<3992, "྘">>,
    <<4029, "྽">>,
    <<4045, "࿍">>,
    <<4059, "࿛࿜࿝࿞࿟࿠࿡࿢࿣࿤࿥࿦࿧࿨࿩࿪࿫࿬࿭࿮࿯࿰࿱࿲࿳࿴࿵࿶࿷࿸࿹࿺࿻࿼࿽࿾࿿">>,
    <<4294, "჆">>,
    <<4296, "჈჉჊჋჌">>,
    <<4302, "჎჏">>,
    <<4745, "኉">>,
    <<4750, "኎኏">>,
    <<4785, "኱">>,
    <<4790, "኶኷">>,
    <<4799, "኿">>,
    <<4801, "዁">>,
    <<4806, "዆዇">>,
    <<4823, "዗">>,
    <<5018, "᎚᎛᎜᎝᎞᎟">>,
    <<5110, "᏶᏷">>,
    <<5118, "᏾᏿">>,
    <<5760, " ">>,
    <<5789, "᚝᚞᚟">>,
    <<5881, "᛹᛺᛻᛼᛽᛾᛿">>,
    <<6110, "៞៟">>,
    <<6122, "៪៫៬៭៮៯">>,
    <<6138, "៺៻៼៽៾៿">>,
    <<6315, "᢫᢬᢭᢮᢯">>,
    <<6390, "᣶᣷᣸᣹᣺᣻᣼᣽᣾᣿">>,
    <<6572, "᦬᦭᦮᦯">>,
    <<6602, "᧊᧋᧌᧍᧎᧏">>,
    <<6619, "᧛᧜᧝">>,
    <<6794, "᪊᪋᪌᪍᪎᪏">>,
    <<6810, "᪚᪛᪜᪝᪞᪟">>,
    <<6830, "᪮᪯">>,
    <<6863, "᫏᫐᫑᫒᫓᫔᫕᫖᫗᫘᫙᫚᫛᫜᫝᫞᫟᫠᫡᫢᫣᫤᫥᫦᫧᫨᫩᫪᫫᫬᫭᫮᫯᫰᫱᫲᫳᫴᫵᫶᫷᫸᫹᫺᫻᫼᫽᫾᫿">>,
    <<7156, "᯴᯵᯶᯷᯸᯹᯺᯻">>,
    <<7305, "Ᲊᲊ᲋᲌᲍᲎᲏">>,
    <<7355, "᲻᲼">>,
    <<7368, "᳈᳉᳊᳋᳌᳍᳎᳏">>,
    <<7419, "᳻᳼᳽᳾᳿">>,
    <<8117, "᾵">>,
    <<8133, "῅">>,
    <<8148, "῔῕">>,
    <<8156, "῜">>,
    <<8176, "῰῱">>,
    <<8181, "῵">>,
    <<8191, "῿">>,
    <<8335, "₏">>,
    <<8349, "₝₞₟">>,
    <<8385, "⃁⃂⃃⃄⃅⃆⃇⃈⃉⃊⃋⃌⃍⃎⃏">>,
    <<8433, "⃱⃲⃳⃴⃵⃶⃷⃸⃹⃺⃻⃼⃽⃾⃿">>,
    <<8588, "↌↍↎↏">>,
    <<11158, "⮖">>,
    <<11508, "⳴⳵⳶⳷⳸">>,
    <<11671, "⶗⶘⶙⶚⶛⶜⶝⶞⶟">>,
    <<11687, "⶧">>,
    <<11695, "⶯">>,
    <<11703, "⶷">>,
    <<11711, "⶿">>,
    <<11719, "⷇">>,
    <<11727, "⷏">>,
    <<11735, "⷗">>,
    <<11743, "⷟">>,
    <<11930, "⺚">>,
    <<12020, "⻴⻵⻶⻷⻸⻹⻺⻻⻼⻽⻾⻿">>,
    <<12246, "⿖⿗⿘⿙⿚⿛⿜⿝⿞⿟⿠⿡⿢⿣⿤⿥⿦⿧⿨⿩⿪⿫⿬⿭⿮⿯">>,
    <<12284, "⿼⿽⿾⿿">>,
    <<12439, "゗゘">>,
    <<12687, "㆏">>,
    <<12772, "㇤㇥㇦㇧㇨㇩㇪㇫㇬㇭㇮㇯">>,
    <<42125, "꒍꒎꒏">>,
    <<42183, "꓇꓈꓉꓊꓋꓌꓍꓎꓏">>,
    <<42744, "꛸꛹꛺꛻꛼꛽꛾꛿">>,
    <<42955, "ꟋꟌꟍ꟎꟏">>,
    <<42962, "꟒">>,
    <<42964, "꟔">>,
    <<42970, "ꟚꟛꟜ꟝꟞꟟꟠꟡꟢꟣꟤꟥꟦꟧꟨꟩꟪꟫꟬꟭꟮꟯꟰꟱">>,
    <<43206, "꣆꣇꣈꣉꣊꣋꣌꣍">>,
    <<43226, "꣚꣛꣜꣝꣞꣟">>,
    <<43470, "꧎">>,
    <<43482, "꧚꧛꧜꧝">>,
    <<43519, "꧿">>,
    <<43715, "꫃꫄꫅꫆꫇꫈꫉꫊꫋꫌꫍꫎꫏꫐꫑꫒꫓꫔꫕꫖꫗꫘꫙꫚">>,
    <<43767, "꫷꫸꫹꫺꫻꫼꫽꫾꫿">>,
    <<44014, "꯮꯯">>,
    <<44026, "꯺꯻꯼꯽꯾꯿">>,
    <<55204, "힤힥힦힧힨힩힪힫힬힭힮힯">>,
    <<55239, "퟇퟈퟉퟊">>,
    <<55292, "퟼퟽퟾퟿">>,
    <<57472, "">>,
    <<57728, "">>,
    <<57984, "">>,
    <<58240, "">>,
    <<58496, "">>,
    <<58752, "">>,
    <<59008, "">>,
    <<59264, "">>,
    <<59520, "">>,
    <<59776, "">>,
    <<60032, "">>,
    <<60288, "">>,
    <<60544, "">>,
    <<60800, "">>,
    <<61056, "">>,
    <<61312, "">>,
    <<61568, "">>,
    <<61824, "">>,
    <<62080, "">>,
    <<62336, "">>,
    <<62592, "">>,
    <<62848, "">>,
    <<63104, "">>,
    <<63360, "">>,
    <<63616, "">>,
    <<64218, "﫚﫛﫜﫝﫞﫟﫠﫡﫢﫣﫤﫥﫦﫧﫨﫩﫪﫫﫬﫭﫮﫯﫰﫱﫲﫳﫴﫵﫶﫷﫸﫹﫺﫻﫼﫽﫾﫿">>,
    <<64451, "﯃﯄﯅﯆﯇﯈﯉﯊﯋﯌﯍﯎﯏﯐﯑﯒">>,
    <<64912, "﶐﶑">>,
    <<64968, "﷈﷉﷊﷋﷌﷍﷎">>,
    <<64976, "﷐﷑﷒﷓﷔﷕﷖﷗﷘﷙﷚﷛﷜﷝﷞﷟﷠﷡﷢﷣﷤﷥﷦﷧﷨﷩﷪﷫﷬﷭﷮﷯">>,
    <<65277, "﻽﻾﻿">>,
    <<65471, "﾿￀￁">>,
    <<65480, "￈￉">>,
    <<65488, "￐￑">>,
    <<65496, "￘￙">>,
    <<65501, "￝￞￟">>,
    <<65511, "￧">>,
    <<65519, "￯￰￱￲￳￴￵￶￷￸￹￺￻">>,
    <<65534, "￾￿">>
    >>

Unprintable == UNION {Chars(UnprintableRuns[r][2]) : r \in 1..Len(UnprintableRuns)}

\* ord(c) of a character of Unprintable
unprintable_ord(c) ==
    LET r == CHOOSE k \in 1..Len(UnprintableRuns) : index_in(c, UnprintableRuns[k][2]) > 0
    IN  UnprintableRuns[r][1] + index_in(c, UnprintableRuns[r][2]) - 1

\* ord(c) of a lone surrogate
surrogate_ord(c) ==
    IF c \in High
    THEN 55296 + surrogate_code(CHOOSE k \in 1..SurrogateCount : HighSurrogate(k) = c)
    ELSE 56320 + surrogate_code(CHOOSE k \in 1..SurrogateCount : LowSurrogate(k) = c)

\* one character as repr writes it, unless it has an escape of its own: the
\* characters that are not printable as \xNN up to 255, \uNNNN up to 65535
\* and \UNNNNNNNN beyond
py_repr_char(c) ==
    IF Len(c) = 2
    THEN IF c \in AstralLetters THEN c
         ELSE "\\U00" \o hex2(astral_ord(c) \div 65536) \o hex4(astral_ord(c) % 65536)
    ELSE IF c \in High \cup Low THEN "\\u" \o hex4(surrogate_ord(c))
    ELSE IF index_in(c, Control) > 0 THEN "\\x" \o hex2(index_in(c, Control))
    ELSE IF index_in(c, Delete) > 0 THEN "\\x" \o hex2(126 + index_in(c, Delete))
    ELSE IF c = SoftHyphen THEN "\\xad"
    ELSE IF c \in Narrow THEN c
    ELSE IF c \in Unprintable THEN "\\u" \o hex4(unprintable_ord(c))
    ELSE c

\* the characters of s as repr writes them between the quotes quote
RECURSIVE py_repr_escape(_, _)
py_repr_escape(s, quote) ==
    IF s = "" THEN ""
    ELSE (CASE Char(s, 1) = "\\" -> "\\\\"
            [] Char(s, 1) = "\n" -> "\\n"
            [] Char(s, 1) = "\t" -> "\\t"
            [] Char(s, 1) = "\r" -> "\\r"
            [] Char(s, 1) = quote -> "\\" \o quote
            [] OTHER -> py_repr_char(point_at(s, 1)))
         \o py_repr_escape(SubSeq(s, point_len(s, 1) + 1, Len(s)), quote)

\* repr(v) of a str (Python prefers single quotes) or of an int
py_repr(v) ==
    IF v.t = "str"
    THEN IF str_contains("'", v.s) /\ ~str_contains("\"", v.s)
         THEN "\"" \o py_repr_escape(v.s, "\"") \o "\""
         ELSE "'" \o py_repr_escape(v.s, "'") \o "'"
    ELSE py_str(v)

\* A handler's outcome: what it returns or raises, and the info dict as the
\* handler leaves it.
Outcome(ret, info) == [ret |-> ret, info |-> info]

file_not_found_error(value, info, frame) ==
    LET parts == str_split(value.str, "'")
    IN  IF Len(parts) < 2 THEN Outcome(Raise("IndexError"), info)
        ELSE Outcome(Str("In your program, the name of the\n"
                         \o "file that cannot be found is " \o BQ \o parts[2] \o BQ
                         \o ".\n"), info)

\* faulty variant: the explanation does not name the key
key_error_without_key(value, info, frame) ==
    IF Len(value.args) < 1 THEN Outcome(Raise("IndexError"), info)
    ELSE Outcome(Str("In your program, a key cannot be found.\n"), info)

key_error(value, info, frame) ==
    IF Len(value.args) < 1 THEN Outcome(Raise("IndexError"), info)
    ELSE Outcome(Str("In your program, the key that cannot be found is " \o BQ
                     \o py_repr(value.args[1]) \o BQ \o ".\n"), info)

overflow_error(value, info, frame) == Outcome(None, info)

zero_division_error(value, info, frame) == Outcome(None, info)

(***************************************************************************)
(* runtime_errors/import_error.py                                          *)
(***************************************************************************)
\* "." of a regular expression matches every character but a newline
no_newline(s, a, b) == \A p \in a..b : Char(s, p) /= "\n"

Min(S) == CHOOSE x \in S : \A y \in S : x <= y

Max(S) == CHOOSE x \in S : \A y \in S : x >= y

\* where a group (.*) that starts at from can end: before an occurrence of
\* the literal lit1 that follows it
re_group_ends(s, from, lit1) ==
    {j \in from..(Len(s) + 1) :
        str_startswith_at(s, lit1, j) /\ no_newline(s, from, j - 1)}

\* the match at the leftmost of the starts hits, with the longest group
re_group_at(s, lit0, lit1, hits) ==
    IF hits = {} THEN None
    ELSE Str(SubSeq(s, Min(hits) + Len(lit0),
                    Max(re_group_ends(s, Min(hits) + Len(lit0), lit1)) - 1))

\* re.search of the pattern  lit0(.*)lit1 : the leftmost start, then the
\* longest group; anchored is "^" under re.M. None or the text of group 1.
re_search_group(s, lit0, lit1, anchored) ==
    re_group_at(s, lit0, lit1,
                {i \in 1..Len(s) :
                    /\ str_startswith_at(s, lit0, i)
                    /\ anchored => (i = 1 \/ Char(s, i - 1) = "\n")
                    /\ re_group_ends(s, i + Len(lit0), lit1) /= {}})

\* where the first group of  lit0(.*)lit1(.*)lit2  can end
re_groups_ends(s, from, lit1, lit2) ==
    {j \in from..(Len(s) + 1) :
        /\ str_startswith_at(s, lit1, j)
        /\ no_newline(s, from, j - 1)
        /\ re_group_ends(s, j + Len(lit1), lit2) /= {}}

\* the two groups, the first from from to j, both as long as can be
re_groups_match(s, from, j, lit1, lit2) ==
    [t |-> "match",
     group1 |-> SubSeq(s, from, j - 1),
     group2 |-> SubSeq(s, j + Len(lit1),
                       Max(re_group_ends(s, j + Len(lit1), lit2)) - 1)]

re_groups_at(s, lit0, lit1, lit2, hits) ==
    IF hits = {} THEN None
    ELSE re_groups_match(s, Min(hits) + Len(lit0),
                         Max(re_groups_ends(s, Min(hits) + Len(lit0), lit1, lit2)),
                         lit1, lit2)

\* re.search of the pattern  lit0(.*)lit1(.*)lit2 : None or the two groups
re_search_groups(s, lit0, lit1, lit2) ==
    re_groups_at(s, lit0, lit1, lit2,
                 {i \in 1..Len(s) :
                     /\ str_startswith_at(s, lit0, i)
                     /\ re_groups_ends(s, i + Len(lit0), lit1, lit2) /= {}})

\* s.replace(c, "") for a single character c
RECURSIVE str_remove(_, _)
str_remove(s, c) ==
    IF s = "" THEN ""
    ELSE LET first == point_at(s, 1)
         IN  (IF first = c THEN "" ELSE first)
             \o str_remove(SubSeq(s, Len(first) + 1, Len(s)), c)

\* sep.join(words)
RECURSIVE str_join(_, _)
str_join(sep, words) ==
    IF Len(words) = 0 THEN ""
    ELSE IF Len(words) = 1 THEN words[1]
    ELSE words[1] \o sep \o str_join(sep, Tail(words))

\* the user's home directory, as path_utils knows it
home == "/home/user"

\* path_utils.shorten_path(path): the home directory is written "~"
shorten_path(path) ==
    IF str_startswith(path, home) THEN "~" \o SubSeq(path, Len(home) + 1, Len(path))
    ELSE path

\* the loop of find_circular_import over tb_lines, from line n on: the
\* list modules_imported of (file, module) pairs, or the exception raised
RECURSIVE find_circular_import_lines(_, _, _, _)

\* the body of the loop for line n, given the three matches on the line
find_circular_import_line(tb_lines, n, current_file, modules_imported, match_file, match_from, match_import) ==
    IF ~IsNone(match_file)
    THEN find_circular_import_lines(tb_lines, n + 1, shorten_path(match_file.s),
                                    modules_imported)
    ELSE IF ~IsNone(match_from)
    THEN find_circular_import_lines(tb_lines, n + 1, "",
             Append(modules_imported, <<current_file, match_from.s>>))
    ELSE IF ~IsNone(match_import)
    THEN IF str_contains(",", match_import.s)
         \* module.split(",") is a list, and a list has no replace()
         THEN Raise("AttributeError")
         ELSE find_circular_import_lines(tb_lines, n + 1, "",
                  Append(modules_imported, <<current_file, match_import.s>>))
    ELSE find_circular_import_lines(tb_lines, n + 1, current_file, modules_imported)

find_circular_import_lines(tb_lines, n, current_file, modules_imported) ==
    IF n > Len(tb_lines) THEN [t |-> "list", items |-> modules_imported]
    ELSE find_circular_import_line(
             tb_lines, n, current_file, modules_imported,
             re_search_group(str_strip(tb_lines[n]), "File \"", "\", line", TRUE),
             re_search_group(str_strip(tb_lines[n]), "from ", " import", TRUE),
             re_search_group(str_strip(tb_lines[n]), "import ", "", TRUE))

find_circular_import_text(file, last_file, last_module) ==
    "The problem was likely caused by what is known as a 'circular import'.\n"
    \o "First, Python imported and started executing the code in file\n"
    \o "   '" \o file \o "'.\n"
    \o "which imports module " \o BQ \o last_module \o BQ \o ".\n"
    \o "During this process, the code in another file,\n"
    \o "   '" \o last_file \o "'\n"
    \o "was executed. However in this last file, an attempt was made\n"
    \o "to import the original module " \o BQ \o last_module \o BQ \o "\n"
    \o "a second time, before Python had completed the first import.\n"

\* faulty variant: the loop does not stop at the first entry, the last one
\* with the module of the last pair is reported
find_circular_import_latest(modules_imported, hits) ==
    IF hits = {} THEN None
    ELSE Str(find_circular_import_text(modules_imported[Max(hits)][1],
                                       modules_imported[Len(modules_imported)][1],
                                       modules_imported[Len(modules_imported)][2]))

\* the loop over modules_imported[:-1]: hits are the entries with the module
\* of the last one
find_circular_import_first(modules_imported, hits) ==
    IF hits = {} THEN None
    ELSE Str(find_circular_import_text(modules_imported[Min(hits)][1],
                                       modules_imported[Len(modules_imported)][1],
                                       modules_imported[Len(modules_imported)][2]))

\* find_circular_import once the loop over tb_lines has ended with scan
find_circular_import_report(scan) ==
    IF IsRaise(scan) THEN scan
    \* modules_imported[-1] of an empty list
    ELSE IF Len(scan.items) = 0 THEN Raise("IndexError")
    ELSE find_circular_import_first(
             scan.items,
             {i \in 1..(Len(scan.items) - 1) :
                 scan.items[i][2] = scan.items[Len(scan.items)][2]})

\* find_circular_import(name, info): the narrative, None, or an exception
find_circular_import(name, info) ==
    IF "simulated_python_traceback" \notin DOMAIN info THEN Raise("KeyError")
    ELSE find_circular_import_report(
             find_circular_import_lines(
                 str_split(info["simulated_python_traceback"].s, "\n"), 1, "", <<>>))

cannot_import_name_from_cause(name, module) ==
    "The object that could not be imported is " \o BQ \o name \o BQ \o ".\n"
    \o "The module or package where it was \n"
    \o "expected to be found is " \o BQ \o module \o BQ \o ".\n"

\* An outcome of import_error.py with its log: suggest_writes counts the
\* assignments to info["suggest"] made on the way.
Logged(outcome, suggest_writes) ==
    [ret |-> outcome.ret, info |-> outcome.info, suggest_writes |-> suggest_writes]

\* cannot_import_name_from when several similar names are found
cannot_import_name_from_candidates(name, module, info, candidates) ==
    Outcome(Str("Instead of trying to import " \o BQ \o name \o BQ
                \o " from " \o BQ \o module \o BQ \o ", \n"
                \o "perhaps you meant to import one of \n"
                \o "the following names which are found in module "
                \o BQ \o module \o BQ \o ":\n"
                \o BQ \o candidates \o BQ \o "\n"),
            dict_set(info, "suggest",
                     Str("Did you mean one of the following: "
                         \o BQ \o candidates \o BQ \o "?\n")))

\* faulty variant: the first similar name is suggested, however many there are
cannot_import_name_from_rest_singular(name, module, info, add_circular_hint, env, circular_info, writes) ==
    IF Truthy(circular_info)
    THEN Logged(Outcome(Str(cannot_import_name_from_cause(name, module) \o "\n"
                            \o circular_info.s), info), writes)
    ELSE IF ~add_circular_hint \/ module \notin env.sys_modules \/ Len(env.similar) = 0
    THEN Logged(Outcome(Str(cannot_import_name_from_cause(name, module)), info), writes)
    ELSE Logged(Outcome(Str("Perhaps you meant to import " \o BQ \o env.similar[1] \o BQ
                            \o " (from " \o BQ \o module \o BQ \o ") "
                            \o "instead of " \o BQ \o name \o BQ \o "\n"),
                        dict_set(info, "suggest",
                                 Str("Did you mean " \o BQ \o env.similar[1] \o BQ
                                     \o "?\n"))),
                writes + 1)

\* faulty variant: after a circular import was found and hinted at, the
\* similar names are suggested as well
cannot_import_name_from_rest_suggest_twice(name, module, info, add_circular_hint, env, circular_info, writes) ==
    IF Truthy(circular_info) /\ (module \notin env.sys_modules \/ Len(env.similar) = 0)
    THEN Logged(Outcome(Str(cannot_import_name_from_cause(name, module) \o "\n"
                            \o circular_info.s), info), writes)
    ELSE IF ~Truthy(circular_info) /\ (~add_circular_hint \/ module \notin env.sys_modules
                                       \/ Len(env.similar) = 0)
    THEN Logged(Outcome(Str(cannot_import_name_from_cause(name, module)), info), writes)
    ELSE Logged(cannot_import_name_from_candidates(
                    name, module, info,
                    str_join(", ", [i \in 1..Len(env.similar) |->
                                       str_remove(env.similar[i], "'")])),
                writes + 1)

\* cannot_import_name_from after the search for a circular import has
\* answered circular_info, with info as that search and the hint left it
cannot_import_name_from_rest(name, module, info, add_circular_hint, env, circular_info, writes) ==
    IF Truthy(circular_info)
    THEN Logged(Outcome(Str(cannot_import_name_from_cause(name, module) \o "\n"
                            \o circular_info.s), info), writes)
    ELSE IF ~add_circular_hint
    THEN Logged(Outcome(Str(cannot_import_name_from_cause(name, module) \o "\n"
             \o "Python indicated that you have a circular import.\n"
             \o "This can occur if executing the code in module 'A'\n"
             \o "results in executing the code in module 'B' where\n"
             \o "an attempt to import a name from module 'A' is made\n"
             \o "before the execution of the code in module 'A' had been completed.\n"),
             info), writes)
    ELSE IF module \notin env.sys_modules
    THEN Logged(Outcome(Str(cannot_import_name_from_cause(name, module)), info), writes)
    ELSE IF Len(env.similar) = 0
    THEN Logged(Outcome(Str(cannot_import_name_from_cause(name, module)), info), writes)
    ELSE IF Len(env.similar) = 1
    THEN Logged(Outcome(Str("Perhaps you meant to import " \o BQ \o env.similar[1] \o BQ
                            \o " (from " \o BQ \o module \o BQ \o ") "
                            \o "instead of " \o BQ \o name \o BQ \o "\n"),
                        dict_set(info, "suggest",
                                 Str("Did you mean " \o BQ \o env.similar[1] \o BQ
                                     \o "?\n"))),
                writes + 1)
    ELSE Logged(cannot_import_name_from_candidates(
                    name, module, info,
                    str_join(", ", [i \in 1..Len(env.similar) |->
                                       str_remove(env.similar[i], "'")])),
                writes + 1)

\* cannot_import_name_from, given what find_circular_import answered
cannot_import_name_from_hint(name, module, info, add_circular_hint, env, circular_info) ==
    IF IsRaise(circular_info) THEN Logged(Outcome(circular_info, info), 0)
    ELSE cannot_import_name_from_rest(
             name, module,
             IF Truthy(circular_info) /\ add_circular_hint
             THEN dict_set(info, "suggest", Str("You have a circular import.\n"))
             ELSE info,
             add_circular_hint, env, circular_info,
             IF Truthy(circular_info) /\ add_circular_hint THEN 1 ELSE 0)

\* cannot_import_name_from(name, module, info, frame, add_circular_hint);
\* env.sys_modules are the modules loaded, env.similar is what
\* get_similar_words(name, dir(mod)) answers
cannot_import_name_from(name, module, info, frame, add_circular_hint, env) ==
    cannot_import_name_from_hint(name, module, info, add_circular_hint, env,
                                 find_circular_import(module, info))

\* cannot_import_name, given the match of "from (.*) import" on the bad line
cannot_import_name_match(name, info, frame, env, match) ==
    IF ~IsNone(match) THEN cannot_import_name_from(name, match.s, info, frame, TRUE, env)
    ELSE Logged(Outcome(Str("The object that could not be imported is "
                            \o BQ \o name \o BQ \o ".\n"), info), 0)

\* cannot_import_name(name, info, frame): Python 3.6 does not name the module
cannot_import_name(name, info, frame, env) ==
    IF "bad_line" \notin DOMAIN info THEN Logged(Outcome(Raise("KeyError"), info), 0)
    ELSE cannot_import_name_match(
             name, info, frame, env,
             re_search_group(info["bad_line"].s, "from ", " import", FALSE))

\* faulty variant: the loosest pattern is tried first
import_error_get_cause_match_loosest_first(message, info, frame, env, match1, match2, match3) ==
    IF ~IsNone(match3)
    THEN cannot_import_name(match3.s, info, frame, env)
    ELSE IF ~IsNone(match1)
    THEN cannot_import_name_from(match1.group1, match1.group2, info, frame,
                                 ~str_contains("circular import", message), env)
    ELSE IF ~IsNone(match2)
    THEN cannot_import_name_from(match2.group1, match2.group2, info, frame, TRUE, env)
    ELSE Logged(Outcome(Str("No information is known about this exception.\n"
                            \o "Please report this example to\n"
                            \o "https://github.com/aroberge/friendly-traceback/issues\n"),
                        info), 0)

\* get_cause, given the matches of its three patterns on the message
import_error_get_cause_match(message, info, frame, env, match1, match2, match3) ==
    IF ~IsNone(match1)
    THEN cannot_import_name_from(match1.group1, match1.group2, info, frame,
                                 ~str_contains("circular import", message), env)
    ELSE IF ~IsNone(match2)
    THEN cannot_import_name_from(match2.group1, match2.group2, info, frame, TRUE, env)
    ELSE IF ~IsNone(match3)
    THEN cannot_import_name(match3.s, info, frame, env)
    ELSE Logged(Outcome(Str("No information is known about this exception.\n"
                            \o "Please report this example to\n"
                            \o "https://github.com/aroberge/friendly-traceback/issues\n"),
                        info), 0)

\* import_error.get_cause(value, info, frame)
import_error_get_cause(value, info, frame, env) ==
    import_error_get_cause_match(
        value.str, info, frame, env,
        re_search_groups(value.str, "cannot import name '",
                         "' from partially initialized module '", "'"),
        re_search_groups(value.str, "cannot import name '", "' from '", "'"),
        re_search_group(value.str, "cannot import name '", "'", FALSE))

\* The handlers that hand over to a module of runtime_errors other than
\* import_error (attribute_error, module_not_found_error, name_error,
\* type_error, unbound_local_error): env.answer is what that module's
\* get_cause answers, a cause text or None.
runtime_errors_get_cause(value, info, frame, env) == Outcome(env.answer, info)

\* A handler an extension registered: a function of the fixed signature that
\* returns a cause text or None.
extension_handler(function, value, info, frame) ==
    IF function = "extension_text"
    THEN Outcome(Str("The extension knows the cause of " \o value.str \o ".\n"), info)
    ELSE Outcome(None, info)

\* get_cause[etype.__name__](value, info, frame)
call_handler(function, value, info, frame, sub) ==
    CASE function = "file_not_found_error" -> file_not_found_error(value, info, frame)
      [] function = "key_error" -> key_error(value, info, frame)
      [] function = "overflow_error" -> overflow_error(value, info, frame)
      [] function = "zero_division_error" -> zero_division_error(value, info, frame)
      [] function = "_import_error" -> import_error_get_cause(value, info, frame, sub)
      [] function \in {"_attribute_error", "_module_not_found_error",
                       "name_error", "_type_error", "_unbound_local_error"} ->
             runtime_errors_get_cause(value, info, frame, sub)
      [] OTHER -> extension_handler(function, value, info, frame)

cause_header_text == "Likely cause based on the information given by Python:"

\* faulty variant: the handler is looked up without the membership test
get_likely_cause_unguarded(registry, etype, value, info, frame, sub) ==
    IF etype \notin DOMAIN registry
    THEN [ret |-> Raise("KeyError"), info |-> info, called |-> None, cause |-> None]
    ELSE
    LET out == call_handler(registry[etype], value, info, frame, sub)
    IN  IF IsRaise(out.ret)
        THEN [ret |-> out.ret, info |-> out.info,
              called |-> Str(registry[etype]), cause |-> out.ret]
        ELSE IF ~IsNone(out.ret)
        THEN [ret |-> None,
              info |-> dict_set(dict_set(out.info, "cause_header", Str(cause_header_text)),
                                "cause", out.ret),
              called |-> Str(registry[etype]), cause |-> out.ret]
        ELSE [ret |-> None, info |-> out.info,
              called |-> Str(registry[etype]), cause |-> out.ret]

\* faulty variant: the cause is written without the test "is not None"
get_likely_cause_always_writes(registry, etype, value, info, frame, sub) ==
    IF etype \notin DOMAIN registry
    THEN [ret |-> None, info |-> info, called |-> None, cause |-> None]
    ELSE
    LET out == call_handler(registry[etype], value, info, frame, sub)
    IN  IF IsRaise(out.ret)
        THEN [ret |-> out.ret, info |-> out.info,
              called |-> Str(registry[etype]), cause |-> out.ret]
        ELSE [ret |-> None,
              info |-> dict_set(dict_set(out.info, "cause_header", Str(cause_header_text)),
                                "cause", Str(py_str(out.ret))),
              called |-> Str(registry[etype]), cause |-> out.ret]

\* get_likely_cause(etype, value, info, frame): returns None or lets the
\* exception of the handler through; "called" is the handler looked up (None
\* for none), "cause" what it returned
get_likely_cause(registry, etype, value, info, frame, sub) ==
    IF etype \notin DOMAIN registry
    THEN [ret |-> None, info |-> info, called |-> None, cause |-> None]
    ELSE
    LET out == call_handler(registry[etype], value, info, frame, sub)
    IN  IF IsRaise(out.ret)
        THEN [ret |-> out.ret, info |-> out.info,
              called |-> Str(registry[etype]), cause |-> out.ret]
        ELSE IF ~IsNone(out.ret)
        THEN [ret |-> None,
              info |-> dict_set(dict_set(out.info, "cause_header", Str(cause_header_text)),
                                "cause", out.ret),
              called |-> Str(registry[etype]), cause |-> out.ret]
        ELSE [ret |-> None, info |-> out.info,
              called |-> Str(registry[etype]), cause |-> out.ret]

\* faulty variant: a handler that raised is removed from the registry
get_likely_cause_globals_unregister(registry, etype, value, info, frame, sub) ==
    IF etype \in DOMAIN registry
       /\ IsRaise(call_handler(registry[etype], value, info, frame, sub).ret)
    THEN [k \in DOMAIN registry \ {etype} |-> registry[k]]
    ELSE registry

\* the dict get_cause after a call of get_likely_cause: the function and the
\* handlers only read it
get_likely_cause_globals(registry, etype, value, info, frame, sub) == registry

(***************************************************************************)
(* The requests the model serves                                           *)
(***************************************************************************)
\* most registrations an extension makes after info_specific is loaded
MaxExtensions == 2

Messages ==
    {"", "invalid syntax",
     "can't assign to keyword", "cannot assign to None", "cannot assign to __debug__",
     "can't assign to function call", "cannot assign to function call",
     "can't assign to literal", "cannot assign to literal",
     "'break' outside loop", "SyntaxError: 'break' outside loop",
     "'continue' not properly in loop",
     "can't delete function call",
     "EOL while scanning string literal",
     "expression cannot contain assignment, perhaps you meant \"==\"?",
     "keyword can't be an expression",
     "keyword can't be an expression; expression cannot contain assignment, perhaps you meant \"==\"?",
     "invalid character in identifier",
     "closing parenthesis ']' does not match opening parenthesis '(' on line 12",
     "closing parenthesis ')' does not match opening parenthesis '['",
     "f-string: unterminated string",
     "name 'x' is parameter and global",
     "name x is parameter and global",
     "name 'p' is assigned to before global declaration",
     "name 'p' is used prior to global declaration",
     "name 'q' is assigned to before nonlocal declaration",
     "name 'q' is used prior to nonlocal declaration",
     "unexpected character after line continuation character",
     "unexpected EOF while parsing",
     "unmatched ')'", "unmatched ']'", "unmatched '}'",
     "positional argument follows keyword argument",
     "non-default argument follows default argument",
     "Missing parentheses in call to 'print'. Did you mean print(\"hello\")?"}

Lines ==
    {"", "5 = x", "  'a' = my_var  ", "1 = 2", "3.5 = x.y", "5 = x = 3", "5 == x",
     "12 =", "None = 1", "a = pass = 2", "__debug__ = 0", "x = 1",
     "len(a) = 3", "f(a=1) = 2", "del f(a)", "del f", "del", "global x", "break",
     "if x: None = 1", "5 = 𰂀"}

\* what the bracket analyzer answers: a text, an empty text, or None
BracketAnswers ==
    {[look_for_mismatched_brackets |-> a, look_for_missing_bracket |-> b] :
        <<a, b>> \in {<<Str(""), Str("")>>,
                      <<None, None>>,
                      <<Str("The opening square bracket on line 1 is not closed.\n"),
                        Str("The opening parenthesis on line 2 is not closed.\n")>>}}

\* analyze_message()'s default arguments
DefaultKw ==
    [message |-> "", line |-> "", linenumber |-> PyInt(0), source_lines |-> None,
     offset |-> PyInt(0)]

DefaultExt == [look_for_mismatched_brackets |-> Str(""), look_for_missing_bracket |-> Str("")]

\* where the fault is: linenumber, source_lines, offset
Locations ==
    {[linenumber |-> None, source_lines |-> None, offset |-> None],
     [linenumber |-> PyInt(0), source_lines |-> None, offset |-> PyInt(0)],
     [linenumber |-> PyInt(1), source_lines |-> Str("5 = x\n"), offset |-> None],
     [linenumber |-> PyInt(3), source_lines |-> Str("a = [\n(1, 2]\n5 = x\n"),
      offset |-> PyInt(0)],
     [linenumber |-> PyInt(3), source_lines |-> Str("a = [\n(1, 2]\n5 = x\n"),
      offset |-> PyInt(4)]}

\* every message on every line at the default location, and every message at
\* every location on one line with every answer of the bracket analyzer
AnalyzeRequests ==
    {[kw |-> [DefaultKw EXCEPT !.message = m, !.line = l], ext |-> DefaultExt] :
        m \in Messages, l \in Lines}
    \cup
    {[kw |-> [message |-> m, line |-> "5 = x", linenumber |-> loc.linenumber,
              source_lines |-> loc.source_lines, offset |-> loc.offset],
      ext |-> e] :
        m \in Messages, loc \in Locations, e \in BracketAnswers}

\* an exception value: str(value) and value.args
Value(text, args) == [str |-> text, args |-> args]

Faults ==
    {[etype |-> "KeyError", value |-> Value("'foo'", <<Str("foo")>>)],
     [etype |-> "KeyError", value |-> Value("'widget'", <<Str("widget")>>)],
     [etype |-> "KeyError", value |-> Value("3", <<PyInt(3)>>)],
     [etype |-> "KeyError", value |-> Value("\"it's\"", <<Str("it's")>>)],
     [etype |-> "KeyError", value |-> Value("'a\\\\b\\n'", <<Str("a\\b\n")>>)],
     [etype |-> "KeyError", value |-> Value("'\\U000f0080'", <<Str("󰂀")>>)],
     [etype |-> "KeyError", value |-> Value("", <<>>)],
     [etype |-> "FileNotFoundError",
      value |-> Value("[Errno 2] No such file or directory: 'does_not_exist.txt'",
                      <<PyInt(2), Str("No such file or directory")>>)],
     [etype |-> "FileNotFoundError",
      value |-> Value("Cannot find None", <<Str("Cannot find None")>>)],
     [etype |-> "OverflowError",
      value |-> Value("math range error", <<Str("math range error")>>)],
     [etype |-> "ZeroDivisionError",
      value |-> Value("division by zero", <<Str("division by zero")>>)],
     [etype |-> "NameError",
      value |-> Value("name 'c' is not defined", <<Str("name 'c' is not defined")>>)],
     [etype |-> "AttributeError",
      value |-> Value("'int' object has no attribute 'a'",
                      <<Str("'int' object has no attribute 'a'")>>)],
     [etype |-> "ModuleNotFoundError",
      value |-> Value("No module named 'nope'", <<Str("No module named 'nope'")>>)],
     [etype |-> "TypeError",
      value |-> Value("can only concatenate str (not \"int\") to str",
                      <<Str("can only concatenate str (not \"int\") to str")>>)],
     [etype |-> "UnboundLocalError",
      value |-> Value("local variable 'a' referenced before assignment",
                      <<Str("local variable 'a' referenced before assignment")>>)],
     [etype |-> "ValueError",
      value |-> Value("invalid literal for int() with base 10: 'a'",
                      <<Str("invalid literal for int() with base 10: 'a'")>>)],
     [etype |-> "RuntimeError", value |-> Value("boom", <<Str("boom")>>)],
     [etype |-> "SyntaxError", value |-> Value("invalid syntax", <<Str("invalid syntax")>>)],
     [etype |-> "StopIteration", value |-> Value("", <<>>)]}

EmptyDict == [k \in {} |-> None]

\* the info dict handed to get_likely_cause: fresh for each fault
Infos ==
    {EmptyDict,
     [k \in {"message", "bad_line"} |->
        IF k = "message" THEN Str("Python exception:") ELSE Str("from bar import foo")]}

\* the simulated tracebacks of an ImportError
\* main imports bar, bar imports baz, baz imports from bar again
TracebackCircular ==
    "Traceback (most recent call last):\n"
    \o "  File \"/home/user/main.py\", line 1, in <module>\n"
    \o "    import bar\n"
    \o "  File \"/home/user/bar.py\", line 2, in <module>\n"
    \o "    from baz import b\n"
    \o "  File \"/srv/baz.py\", line 3, in <module>\n"
    \o "    from bar import foo\n"
    \o "ImportError: cannot import name 'foo' from 'bar'\n"

\* a chain of imports in which no module comes twice
TracebackChain ==
    "Traceback (most recent call last):\n"
    \o "  File \"/home/user/main.py\", line 1, in <module>\n"
    \o "    import baz\n"
    \o "  File \"/srv/baz.py\", line 3, in <module>\n"
    \o "    from bar import foo\n"
    \o "ImportError: cannot import name 'foo' from 'bar'\n"

\* the module of the last import comes twice before, from different files
TracebackTwice ==
    "  File \"/home/user/main.py\", line 1, in <module>\n"
    \o "    from bar import a\n"
    \o "  File \"/srv/one.py\", line 2, in <module>\n"
    \o "    import baz\n"
    \o "  File \"/srv/two.py\", line 3, in <module>\n"
    \o "    import bar\n"
    \o "    import baz\n"
    \o "  File \"/srv/three.py\", line 5, in <module>\n"
    \o "    from bar import foo\n"

\* a bare import of two modules, separated by a comma
TracebackComma ==
    "Traceback (most recent call last):\n"
    \o "  File \"/home/user/main.py\", line 1, in <module>\n"
    \o "    import os, bar\n"
    \o "  File \"/home/user/bar.py\", line 2, in <module>\n"
    \o "    from bar import foo\n"

\* no import statement at all: the import was typed at the prompt
TracebackNoImport ==
    "Traceback (most recent call last):\n"
    \o "  File \"<stdin>\", line 1, in <module>\n"
    \o "ImportError: cannot import name 'foo' from 'bar'\n"

Tracebacks ==
    {TracebackCircular, TracebackChain, TracebackTwice, TracebackComma, TracebackNoImport}

\* the info dict of an ImportError
ImportInfos ==
    {[k \in {"bad_line", "simulated_python_traceback"} |->
        IF k = "bad_line" THEN Str(bad_line) ELSE Str(tb)] :
        bad_line \in {"from bar import foo", "import bar"}, tb \in Tracebacks}
    \cup Infos

\* what an ImportError says: Python 3.8 with and without the hint on a
\* circular import, Python 3.7, Python 3.6, and a message of another shape
ImportFaults ==
    {[etype |-> "ImportError", value |-> Value(text, <<Str(text)>>)] :
        text \in {"cannot import name 'foo' from partially initialized module 'bar'"
                      \o " (most likely due to a circular import) (/home/user/bar.py)",
                  "cannot import name 'foo' from partially initialized module 'bar'"
                      \o " (/home/user/bar.py)",
                  "cannot import name 'foo' from 'bar' (/home/user/bar.py)",
                  "cannot import name 'foo'",
                  "DLL load failed"}}

\* what the environment of a handler answers: the get_cause of a
\* runtime_errors module, sys.modules, get_similar_words
Env(answer, sys_modules, similar) ==
    [answer |-> answer, sys_modules |-> sys_modules, similar |-> similar]

SubAnswers ==
    {Env(None, {}, <<>>),
     Env(Str("In your program, the unknown name is " \o BQ \o "c" \o BQ \o ".\n"), {}, <<>>)}

ImportEnvs ==
    {Env(None, {}, <<"food">>),
     Env(None, {"bar"}, <<>>),
     Env(None, {"bar"}, <<"food">>),
     Env(None, {"bar"}, <<"food", "fo'o", "Foo">>)}

\* the calls of get_likely_cause
CauseRequests ==
    {[fault |-> fault, info |-> info, sub |-> sub] :
        fault \in Faults, info \in Infos, sub \in SubAnswers}
    \cup {[fault |-> fault, info |-> info, sub |-> sub] :
            fault \in ImportFaults, info \in ImportInfos, sub \in ImportEnvs}

\* the direct calls of import_error.get_cause
ImportRequests ==
    {[value |-> fault.value, info |-> info, env |-> env] :
        fault \in ImportFaults, info \in ImportInfos, env \in ImportEnvs}

\* the direct calls of find_circular_import(name, info)
CircularRequests ==
    {[name |-> "bar", info |-> info] : info \in ImportInfos}

\* the registrations an extension makes
ExtensionDefs ==
    {[error_name |-> "KeyError", function |-> "extension_none"],
     [error_name |-> "KeyError", function |-> "extension_text"],
     [error_name |-> "ValueError", function |-> "extension_text"]}

\* dir(builtins), in its order: the names of the builtins module the model
\* follows, two of them of the form __x__
BuiltinNames == <<"__doc__", "__name__", "len", "pow">>

\* getattr(builtins, name) for each of them, as __init__ saves it
builtins_getattr(name) ==
    IF name = "__name__" THEN "builtins"
    ELSE IF name = "__doc__"
    THEN
        "Built-in functions, types, exceptions, and other objects.\n"
        \o "\n"
        \o "This module provides direct access to all 'built-in'\n"
        \o "identifiers of Python; for example, builtins.len is\n"
        \o "the full name for the built-in function len().\n"
        \o "\n"
        \o "This module is not normally accessed explicitly by most\n"
        \o "applications, but can be useful in modules that provide\n"
        \o "objects with the same name as a built-in value, but in\n"
        \o "which the built-in of that name is also needed."
    ELSE "<built-in function " \o name \o ">"

\* self.saved_builtins as __init__ builds it
SavedBuiltins ==
    [name \in {BuiltinNames[i] : i \in 1..Len(BuiltinNames)} |-> builtins_getattr(name)]

\* self.locals as code.InteractiveInterpreter.__init__ builds it for
\* locals=None
InitLocals ==
    [name \in {"__name__", "__doc__"} |->
        IF name = "__name__" THEN "__console__" ELSE "None"]

\* name.startswith("__") and name.endswith("__")
is_dunder(name) ==
    /\ str_startswith(name, "__")
    /\ Len(name) >= 2
    /\ SubSeq(name, Len(name) - 1, Len(name)) = "__"

\* console._quote(text): session.quote surrounds the text by single quotes
_quote(text) == "'" \o text \o "'"

\* The values bound in self.locals are written as repr writes them, a str
\* as its text.  float("nan") is the value that differs from itself; each
\* float("nan") evaluated makes an object of its own, and NaN(k) is the
\* k-th of those that the console holds.
NaN(k) == "nan#" \o ToString(k)

is_nan(v) == str_startswith(v, "nan#")

\* the values of a dict
dict_values(d) == {d[k] : k \in DOMAIN d}

\* float("nan") evaluated while the console holds the values of held: an
\* object that is none of them
float_nan(held) ==
    NaN(CHOOSE k \in 1..(Cardinality(held) + 1) :
            /\ NaN(k) \notin held
            /\ \A j \in 1..(k - 1) : NaN(j) \in held)

\* a == b on the values bound in self.locals: True is the int 1 and False
\* the int 0
py_eq(a, b) ==
    /\ ~is_nan(a)
    /\ ~is_nan(b)
    /\ \/ a = b
       \/ {a, b} = {"1", "True"}
       \/ {a, b} = {"0", "False"}

\* a != b on the values bound in self.locals
py_ne(a, b) == ~py_eq(a, b)

\* the body of the loop of check_for_builtins_changes for one name: the
\* name is warned about
builtin_redefined(name, saved, bound) ==
    /\ ~is_dunder(name)
    /\ ~(name = "pow" /\ {"cos", "cosh", "pi"} \subseteq DOMAIN bound)
    /\ name \in DOMAIN bound
    /\ py_ne(saved[name], bound[name])

\* the list changed that the loop over self.saved_builtins builds
RECURSIVE builtins_changed_from(_, _, _)
builtins_changed_from(saved, bound, i) ==
    IF i > Len(BuiltinNames) THEN <<>>
    ELSE (IF builtin_redefined(BuiltinNames[i], saved, bound)
          THEN <<BuiltinNames[i]>> ELSE <<>>)
         \o builtins_changed_from(saved, bound, i + 1)

\* console.please_comment
please_comment ==
    "   Do you find these warnings useful?\n"
    \o "   Comment at https://github.com/aroberge/friendly-traceback/issues/112"

\* what is printed for the names of changed
RECURSIVE builtins_warnings(_)
builtins_warnings(changed) ==
    IF changed = <<>> THEN <<>>
    ELSE <<"Warning: you have redefined the python builtin " \o _quote(Head(changed))
           \o ".",
           please_comment>>
         \o builtins_warnings(Tail(changed))

\* check_for_builtins_changes once the loop has built changed
check_for_builtins_changes_save(saved, bound, changed) ==
    [changed |-> changed,
     saved_builtins |-> [name \in DOMAIN saved |->
                            IF \E i \in 1..Len(changed) : changed[i] = name
                            THEN bound[name] ELSE saved[name]],
     output |-> builtins_warnings(changed)]

\* FriendlyConsole.check_for_builtins_changes(): the names warned about,
\* self.saved_builtins afterwards, what was printed
check_for_builtins_changes(saved, bound) ==
    check_for_builtins_changes_save(saved, bound, builtins_changed_from(saved, bound, 1))

\* self.locals without the key "__annotations__"
NoAnnotations == [present |-> FALSE, hints |-> <<>>]

\* self.locals["__annotations__"] = hints: a dict in the order of insertion,
\* each hint as str(hints[name]) writes it
Annotations(hints) == [present |-> TRUE, hints |-> hints]

\* the first loop of check_for_annotations: what is printed for the hints
\* given to names of builtins
RECURSIVE annotations_builtins(_)
annotations_builtins(hints) ==
    IF hints = <<>> THEN <<>>
    ELSE (IF \E i \in 1..Len(BuiltinNames) : BuiltinNames[i] = Head(hints).name
          THEN <<"Warning: you added a type hint to the python builtin "
                 \o _quote(Head(hints).name) \o ".",
                 please_comment>>
          ELSE <<>>)
         \o annotations_builtins(Tail(hints))

\* the condition of the second loop: the name has a hint and no value, or
\* the value it had before the code was run
annotation_unassigned(name, bound, old) ==
    /\ ~\E i \in 1..Len(BuiltinNames) : BuiltinNames[i] = name
    /\ \/ name \notin DOMAIN bound
       \/ name \in DOMAIN old /\ py_eq(old[name], bound[name])

\* suggest for one hint, followed by a newline when there is one
annotation_suggest(name, hint) ==
    IF str_startswith(hint, "<") THEN ""
    ELSE "Instead of " \o _quote(name \o " : " \o hint)
         \o ", perhaps you meant " \o _quote(name \o " = " \o hint) \o ".\n"

\* the second loop: the suggestions for the hints of names left unassigned
RECURSIVE annotations_suggestions(_, _, _)
annotations_suggestions(hints, bound, old) ==
    IF hints = <<>> THEN ""
    ELSE (IF annotation_unassigned(Head(hints).name, bound, old)
          THEN annotation_suggest(Head(hints).name, Head(hints).hint)
          ELSE "")
         \o annotations_suggestions(Tail(hints), bound, old)

\* FriendlyConsole.check_for_annotations(): what was printed, and
\* self.locals["__annotations__"] afterwards
check_for_annotations(bound, old, noted) ==
    IF ~noted.present \/ noted.hints = <<>>
    THEN [output |-> <<>>, annotations |-> noted]
    ELSE IF \E i \in 1..Len(noted.hints) :
                annotation_unassigned(noted.hints[i].name, bound, old)
    THEN [output |-> annotations_builtins(noted.hints)
                     \o <<"Warning: you used a type hint for a variable without "
                           \o "assigning it a value.\n"
                           \o annotations_suggestions(noted.hints, bound, old),
                          please_comment>>,
          annotations |-> Annotations(<<>>)]
    ELSE [output |-> annotations_builtins(noted.hints), annotations |-> noted]

Idle == [op |-> "idle"]

(***************************************************************************)
(* The state machine                                                       *)
(***************************************************************************)
Init ==
    /\ MESSAGE_ANALYZERS = <<>>
    /\ loaded_analyzers = 0
    /\ get_cause = EmptyDict
    /\ loaded_handlers = 0
    /\ registrations = <<>>
    /\ last = Idle
    /\ buffer = <<>>
    /\ counter = 1
    /\ cache = EmptyDict
    /\ exited = FALSE
    /\ samples = <<>>
    /\ pushed = Idle
    /\ locals = InitLocals
    /\ old_locals = EmptyDict
    /\ saved_builtins = check_for_builtins_changes(SavedBuiltins, InitLocals).saved_builtins
    /\ annotations = check_for_annotations(InitLocals, EmptyDict, NoAnnotations).annotations
    /\ quiet = {}
    /\ checked = Idle

AnalyzersLoaded == loaded_analyzers = Len(AnalyzerDefs)

HandlersLoaded == loaded_handlers = Len(HandlerDefs)

\* importing the package has loaded both modules
Loaded == AnalyzersLoaded /\ HandlersLoaded

\* loading message_analyzer.py executes the next decorated definition
LoadAnalyzer ==
    /\ ~AnalyzersLoaded
    /\ MESSAGE_ANALYZERS' =
           add_python_message(MESSAGE_ANALYZERS, AnalyzerDefs[loaded_analyzers + 1])
    /\ loaded_analyzers' = loaded_analyzers + 1
    /\ UNCHANGED <<get_cause, loaded_handlers, registrations, last>>
    /\ UNCHANGED console_vars

\* loading info_specific.py executes the next decorated definition
LoadHandler ==
    /\ ~HandlersLoaded
    /\ LET def == HandlerDefs[loaded_handlers + 1]
       IN  /\ get_cause' = register(get_cause, def.error_name, def.function)
           /\ registrations' = Append(registrations, def)
    /\ loaded_handlers' = loaded_handlers + 1
    /\ UNCHANGED <<MESSAGE_ANALYZERS, loaded_analyzers, last>>
    /\ UNCHANGED console_vars

\* an extension applies @register(error_name) to a function of its own
RegisterExtension ==
    /\ Loaded
    /\ last = Idle
    /\ Len(registrations) < Len(HandlerDefs) + MaxExtensions
    /\ \E def \in ExtensionDefs :
          /\ get_cause' = register(get_cause, def.error_name, def.function)
          /\ registrations' = Append(registrations, def)
    /\ UNCHANGED <<MESSAGE_ANALYZERS, loaded_analyzers, loaded_handlers, last>>
    /\ UNCHANGED console_vars

\* a caller asks analyze_message about a syntax error
AnalyzeMessage ==
    /\ Loaded
    /\ last = Idle
    /\ \E req \in AnalyzeRequests :
          /\ last' = [op |-> "analyze_message", kw |-> req.kw, ext |-> req.ext,
                      result |-> analyze_message(MESSAGE_ANALYZERS, req.kw, req.ext)]
          /\ MESSAGE_ANALYZERS' =
                 analyze_message_globals(MESSAGE_ANALYZERS, req.kw, req.ext)
    /\ UNCHANGED <<loaded_analyzers, get_cause, loaded_handlers, registrations>>
    /\ UNCHANGED console_vars

\* a caller asks get_likely_cause about an exception
GetLikelyCause ==
    /\ Loaded
    /\ last = Idle
    /\ \E req \in CauseRequests :
          /\ last' = [op |-> "get_likely_cause", etype |-> req.fault.etype,
                      value |-> req.fault.value, info |-> req.info, sub |-> req.sub,
                      result |-> get_likely_cause(get_cause, req.fault.etype,
                                                  req.fault.value, req.info, "frame",
                                                  req.sub)]
          /\ get_cause' = get_likely_cause_globals(get_cause, req.fault.etype,
                                                   req.fault.value, req.info, "frame",
                                                   req.sub)
    /\ UNCHANGED <<MESSAGE_ANALYZERS, loaded_analyzers, loaded_handlers, registrations>>
    /\ UNCHANGED console_vars

\* a caller asks import_error.get_cause about an ImportError
ImportErrorGetCause ==
    /\ Loaded
    /\ last = Idle
    /\ \E req \in ImportRequests :
          last' = [op |-> "import_error.get_cause", value |-> req.value,
                   info |-> req.info, env |-> req.env,
                   result |-> import_error_get_cause(req.value, req.info, "frame",
                                                     req.env)]
    /\ UNCHANGED <<MESSAGE_ANALYZERS, loaded_analyzers, get_cause, loaded_handlers,
                   registrations>>
    /\ UNCHANGED console_vars

\* a caller asks find_circular_import about a simulated traceback;
\* modules_imported is the list the loop over the lines has built
FindCircularImport ==
    /\ Loaded
    /\ last = Idle
    /\ \E req \in CircularRequests :
          last' = [op |-> "find_circular_import", name |-> req.name, info |-> req.info,
                   modules_imported |->
                       IF "simulated_python_traceback" \in DOMAIN req.info
                       THEN find_circular_import_lines(
                                str_split(req.info["simulated_python_traceback"].s, "\n"),
                                1, "", <<>>)
                       ELSE None,
                   result |-> find_circular_import(req.name, req.info)]
    /\ UNCHANGED <<MESSAGE_ANALYZERS, loaded_analyzers, get_cause, loaded_handlers,
                   registrations>>
    /\ UNCHANGED console_vars

\* the caller has used the answer; the fault record is discarded
Discard ==
    /\ last /= Idle
    /\ last' = Idle
    /\ UNCHANGED <<MESSAGE_ANALYZERS, loaded_analyzers, get_cause, loaded_handlers,
                   registrations>>
    /\ UNCHANGED console_vars

Next ==
    \/ LoadAnalyzer
    \/ LoadHandler
    \/ RegisterExtension
    \/ AnalyzeMessage
    \/ GetLikelyCause
    \/ ImportErrorGetCause
    \/ FindCircularImport
    \/ Discard

Spec == Init /\ [][Next]_vars

(***************************************************************************)
(* console.py: FriendlyConsole                                             *)
(***************************************************************************)
\* most calls of push made on one console
MaxPushes == 3

\* a Python bool
PyBool(b) == [t |-> "bool", v |-> b]

\* s * n
RECURSIVE str_repeat(_, _)
str_repeat(s, n) == IF n <= 0 THEN "" ELSE s \o str_repeat(s, n - 1)

\* how a call ended: what it returned or raised, what it wrote to the
\* terminal, and whether it ended the process
Ran(ret, output, exit) == [ret |-> ret, output |-> output, exit |-> exit]

\* self.fake_filename % self.counter
fake_filename(n) == "<friendly-console:" \o ToString(n) \o ">"

\* what the interpreter and the explanation pipeline do during one push:
\* compile is what self.compile(source, filename, symbol) does (an exception,
\* None for an incomplete command, a code object), exec is how exec(code,
\* self.locals) ends, explain is how friendly_traceback.explain_traceback()
\* ends ("ok" or the exception it raises)
Answer(compile, exec, explain) == [compile |-> compile, exec |-> exec, explain |-> explain]

\* friendly_traceback.explain_traceback(): writes the explanation of the
\* exception being handled, or fails with an exception of its own
explain_traceback(explain) ==
    IF explain = "ok" THEN Ran(None, <<"friendly traceback">>, FALSE)
    ELSE Ran(Raise(explain), <<>>, FALSE)

\* Exceptions are named by their class, a class of builtins.

\* the exceptions that "except Exception" does not catch: the classes of
\* builtins that derive from BaseException and not from Exception
NotException ==
    {"BaseException", "BaseExceptionGroup", "GeneratorExit", "KeyboardInterrupt",
     "SystemExit"}

\* the exceptions that "except (OverflowError, SyntaxError, ValueError)" of
\* runsource catches: these classes and the ones that derive from them
CompileErrors ==
    {"OverflowError", "SyntaxError", "IndentationError", "TabError", "ValueError",
     "UnicodeError", "UnicodeDecodeError", "UnicodeEncodeError",
     "UnicodeTranslateError"}

\* the handler "except Exception" of runcode, given how explain_traceback
\* ended: what "except Exception" around it does not catch leaves runcode
runcode_except(explained) ==
    IF IsRaise(explained.ret) /\ explained.ret.exc \in NotException THEN explained
    ELSE IF IsRaise(explained.ret)
    THEN Ran(None,
             explained.output
                 \o <<"Friendly-traceback Internal Error", str_repeat("-", 60),
                      "Traceback (most recent call last):", str_repeat("-", 60)>>,
             FALSE)
    ELSE Ran(None, explained.output, FALSE)

\* the try statement of FriendlyConsole.runcode(code): how it ends and what
\* the explanation prints; RanCode adds the checks that follow it
runcode(answer) ==
    IF answer.exec = "ok" THEN Ran(None, <<>>, FALSE)
    ELSE IF answer.exec = "SystemExit" THEN Ran(None, <<>>, TRUE)
    ELSE IF answer.exec \in NotException THEN Ran(Raise(answer.exec), <<>>, FALSE)
    ELSE runcode_except(explain_traceback(answer.explain))

\* case 1 of runsource, given how explain_traceback ended
runsource_case1(explained) ==
    IF IsRaise(explained.ret) THEN explained
    ELSE Ran(PyBool(FALSE), explained.output, FALSE)

\* case 3 of runsource, given how runcode ended
runsource_case3(ran) ==
    IF IsRaise(ran.ret) \/ ran.exit THEN ran
    ELSE Ran(PyBool(FALSE), ran.output, FALSE)

\* FriendlyConsole.runsource(source, filename): how it ends and what the
\* explanation prints; for the code of a source, RanSource adds what runcode
\* does to self.locals and what its checks print
runsource(source, filename, answer) ==
    IF answer.compile \in CompileErrors
    THEN runsource_case1(explain_traceback(answer.explain))
    ELSE IF answer.compile = "None" THEN Ran(PyBool(TRUE), <<>>, FALSE)
    ELSE IF answer.compile = "code" THEN runsource_case3(runcode(answer))
    ELSE Ran(Raise(answer.compile), <<>>, FALSE)

\* the fields of a FriendlyConsole, and the source cache
Console(b, c, files) == [buffer |-> b, counter |-> c, cache |-> files]

\* source_cache.cache.add(filename, source)
cache_add(files, filename, source) == dict_set(files, filename, source)

\* faulty variant: the buffer is reset whatever runsource returned
push_more_always_reset(self, more) ==
    IF IsRaise(more.ret) \/ more.exit THEN [self |-> self, ran |-> more]
    ELSE [self |-> [self EXCEPT !.buffer = <<>>, !.counter = @ + 1], ran |-> more]

\* push after runsource has ended as more, with self as it was then
push_more(self, more) ==
    IF IsRaise(more.ret) \/ more.exit THEN [self |-> self, ran |-> more]
    ELSE IF ~more.ret.v
    THEN [self |-> [self EXCEPT !.buffer = <<>>, !.counter = @ + 1], ran |-> more]
    ELSE [self |-> self, ran |-> more]

\* push from the appended buffer on
push_source(self, buffer1, answer) ==
    push_more(Console(buffer1, self.counter,
                      cache_add(self.cache, fake_filename(self.counter),
                                str_join("\n", buffer1))),
              runsource(str_join("\n", buffer1), fake_filename(self.counter), answer))

\* FriendlyConsole.push(line): buffer, counter and cache after the call, and
\* how it ended; Pushed adds self.locals and what the checks of runcode print
push(self, line, answer) == push_source(self, Append(self.buffer, line), answer)

\* the lines a user enters: the sources made of them that have code are
\* sources read (source_read), and exec of the code ends as the source has it
ConsoleLines ==
    {"x = 1", "if x:", "    len = 1", "1/0", "raise SystemExit", "raise KeyboardInterrupt"}

\* what the interpreter and the explanation pipeline may do
ConsoleAnswers ==
    {Answer("SyntaxError", "-", explain) : explain \in {"ok", "IndexError"}}
    \cup {Answer("None", "-", "-")}
    \cup {Answer("code", exec, "-") : exec \in {"ok", "SystemExit", "KeyboardInterrupt"}}
    \cup {Answer("code", exec, explain) :
              exec \in {"ZeroDivisionError", "NameError"},
              explain \in {"ok", "IndexError", "KeyboardInterrupt", "BaseExceptionGroup"}}

\* what a statement run by exec(code, self.locals) does to self.locals:
\* nothing, an assignment, a del, or "from math import *"; hint is the hint
\* of an annotated statement as str writes it, "-" without one
Effect(op, name, value) == [op |-> op, name |-> name, value |-> value, hint |-> "-"]

\* the same for an annotated name (x : int) or assignment (x : int = 1)
Annotated(op, name, value, hint) == [op |-> op, name |-> name, value |-> value, hint |-> hint]

NoEffect == Effect("none", "-", "-")

\* the dict without the key
dict_del(d, k) == [x \in DOMAIN d \ {k} |-> d[x]]

\* "from math import *": of the names it binds, those the console looks at
math_import(bound) ==
    [name \in DOMAIN bound \cup {"cos", "cosh", "pi", "pow"} |->
        IF name \in {"cos", "cosh", "pi", "pow"} THEN "math." \o name ELSE bound[name]]

\* the value that the statement binds, value being the text
\* "float('nan')" or the value itself: held are the values that the
\* console holds when the statement is run
exec_value(value, held) == IF value = "float('nan')" THEN float_nan(held) ELSE value

\* self.locals after the statement; kept are the values that the console
\* holds outside self.locals
exec_locals(bound, effect, kept) ==
    IF effect.op = "assign"
    THEN dict_set(bound, effect.name, exec_value(effect.value, dict_values(bound) \cup kept))
    ELSE IF effect.op = "del" THEN dict_del(bound, effect.name)
    ELSE IF effect.op = "math" THEN math_import(bound)
    ELSE bound

\* hints[name] = hint: a new key goes last, a known key keeps its place
hints_set(hints, name, hint) ==
    IF \E i \in 1..Len(hints) : hints[i].name = name
    THEN [i \in 1..Len(hints) |->
             IF hints[i].name = name THEN [name |-> name, hint |-> hint] ELSE hints[i]]
    ELSE Append(hints, [name |-> name, hint |-> hint])

\* self.locals["__annotations__"] after the statement
exec_annotations(noted, effect) ==
    IF effect.hint = "-" THEN noted
    ELSE Annotations(hints_set(noted.hints, effect.name, effect.hint))

\* the blanks between the tokens of a line of source
Blanks == {" ", "\t"}

\* text without the blanks at its ends
source_strip(text) ==
    LET keep == {i \in 1..Len(text) : Char(text, i) \notin Blanks}
    IN  IF keep = {} THEN ""
        ELSE SubSeq(text, CHOOSE i \in keep : \A j \in keep : i <= j,
                          CHOOSE i \in keep : \A j \in keep : i >= j)

\* the blanks a line begins with
source_indent(line) ==
    LET keep == {i \in 1..Len(line) : Char(line, i) \notin Blanks}
    IN  IF keep = {} THEN line
        ELSE SubSeq(line, 1, (CHOOSE i \in keep : \A j \in keep : i <= j) - 1)

\* the names of dir(builtins) that the model does not follow
OtherBuiltins ==
    {"ArithmeticError", "AssertionError", "AttributeError", "BaseException",
     "BaseExceptionGroup", "BlockingIOError", "BrokenPipeError",
     "BufferError", "BytesWarning", "ChildProcessError",
     "ConnectionAbortedError", "ConnectionError", "ConnectionRefusedError",
     "ConnectionResetError", "DeprecationWarning", "EOFError", "Ellipsis",
     "EncodingWarning", "EnvironmentError", "Exception", "ExceptionGroup",
     "False", "FileExistsError", "FileNotFoundError", "FloatingPointError",
     "FutureWarning", "GeneratorExit", "IOError", "ImportError",
     "ImportWarning", "IndentationError", "IndexError", "InterruptedError",
     "IsADirectoryError", "KeyError", "KeyboardInterrupt", "LookupError",
     "MemoryError", "ModuleNotFoundError", "NameError", "None",
     "NotADirectoryError", "NotImplemented", "NotImplementedError",
     "OSError", "OverflowError", "PendingDeprecationWarning",
     "PermissionError", "ProcessLookupError", "RecursionError",
     "ReferenceError", "ResourceWarning", "RuntimeError", "RuntimeWarning",
     "StopAsyncIteration", "StopIteration", "SyntaxError", "SyntaxWarning",
     "SystemError", "SystemExit", "TabError", "TimeoutError", "True",
     "TypeError", "UnboundLocalError", "UnicodeDecodeError",
     "UnicodeEncodeError", "UnicodeError", "UnicodeTranslateError",
     "UnicodeWarning", "UserWarning", "ValueError", "Warning",
     "ZeroDivisionError", "__build_class__", "__debug__", "__import__",
     "__loader__", "__package__", "__spec__", "abs", "aiter", "all",
     "anext", "any", "ascii", "bin", "bool", "breakpoint", "bytearray",
     "bytes", "callable", "chr", "classmethod", "compile", "complex",
     "copyright", "credits", "delattr", "dict", "dir", "divmod",
     "enumerate", "eval", "exec", "exit", "filter", "float", "format",
     "frozenset", "getattr", "globals", "hasattr", "hash", "help", "hex",
     "id", "input", "int", "isinstance", "issubclass", "iter", "license",
     "list", "locals", "map", "max", "memoryview", "min", "next", "object",
     "oct", "open", "ord", "print", "property", "quit", "range", "repr",
     "reversed", "round", "set", "setattr", "slice", "sorted",
     "staticmethod", "str", "sum", "super", "tuple", "type", "vars", "zip"}

\* the names that "from math import *" binds and the model does not follow
OtherMath ==
    {"acos", "acosh", "asin", "asinh", "atan", "atan2", "atanh", "cbrt",
     "ceil", "comb", "copysign", "degrees", "dist", "e", "erf", "erfc",
     "exp", "exp2", "expm1", "fabs", "factorial", "floor", "fmod", "frexp",
     "fsum", "gamma", "gcd", "hypot", "inf", "isclose", "isfinite", "isinf",
     "isnan", "isqrt", "lcm", "ldexp", "lgamma", "log", "log10", "log1p",
     "log2", "modf", "nan", "nextafter", "perm", "prod", "radians",
     "remainder", "sin", "sinh", "sqrt", "tan", "tanh", "tau", "trunc",
     "ulp"}

\* The sources that the model reads are one statement of the forms below,
\* as push compiles them; exec of any other source is not described, and
\* Pushed has no step for it.

\* a name of the sources read: letters, digits and underscores, not a
\* keyword, not a name of builtins or math that the model does not follow,
\* and not a name that exec or the interactive display sets by itself
source_name(text) ==
    /\ str_isidentifier(text)
    /\ \A i \in 1..Len(text) :
           Char(text, i) \in Chars("abcdefghijklmnopqrstuvwxyz")
                             \cup Chars("ABCDEFGHIJKLMNOPQRSTUVWXYZ")
                             \cup Digits \cup {"_"}
    /\ text \notin kwlist
    /\ text \notin OtherBuiltins \cup OtherMath
    /\ text \notin {"__builtins__", "__annotations__", "_"}

\* the longest decimal literal read
MaxDigits == 18

\* a decimal literal, written as repr writes the int
source_int(text) ==
    /\ Len(text) \in 1..MaxDigits
    /\ \A i \in 1..Len(text) : Char(text, i) \in Digits
    /\ Len(text) > 1 => Char(text, 1) /= "0"

\* a literal divided by the literal 0
source_division(text) ==
    /\ str_find(text, "/", 1) > 0
    /\ source_int(source_strip(SubSeq(text, 1, str_find(text, "/", 1) - 1)))
    /\ source_strip(SubSeq(text, str_find(text, "/", 1) + 1, Len(text))) = "0"

\* the expressions read: a decimal literal, None, True, False,
\* float('nan'), a name, a literal divided by 0
source_expression(text) ==
    \/ source_int(text)
    \/ text \in {"None", "True", "False", "float('nan')"}
    \/ source_name(text)
    \/ source_division(text)

\* the value of an expression read, as repr writes it, or the exception
\* that its evaluation raises: a name is looked up in self.locals, then in
\* builtins; kept are the values that the console holds outside self.locals
source_value(text, bound, kept) ==
    IF source_int(text) \/ text \in {"None", "True", "False"}
    THEN [raised |-> "ok", value |-> text]
    ELSE IF text = "float('nan')"
    THEN [raised |-> "ok", value |-> float_nan(dict_values(bound) \cup kept)]
    ELSE IF source_division(text) THEN [raised |-> "ZeroDivisionError", value |-> "-"]
    ELSE IF text \in DOMAIN bound THEN [raised |-> "ok", value |-> bound[text]]
    ELSE IF text \in DOMAIN SavedBuiltins
    THEN [raised |-> "ok", value |-> builtins_getattr(text)]
    ELSE [raised |-> "NameError", value |-> "-"]

\* the names of types used as hints
TypeNames == {"int", "str", "float", "bool", "list", "dict"}

\* the hints read: the name of a type or a decimal literal
source_hinted(text) == text \in TypeNames \/ source_int(text)

\* str(hint) for the hint of an annotated statement
source_hint(text) == IF text \in TypeNames THEN "<class '" \o text \o "'>" ELSE text

\* the exceptions that a raise statement of the sources read names
Raised ==
    {"SystemExit", "KeyboardInterrupt", "GeneratorExit", "ZeroDivisionError",
     "NameError", "ValueError", "IndexError", "KeyError"}

Unread == [op |-> "unread", name |-> "-", value |-> "-", hint |-> "-"]

\* name : hint and name : hint = value, rest being what follows the colon
\* and eq the place of "=" in it
statement_annotated(name, rest, eq) ==
    IF eq = 0
    THEN IF source_hinted(source_strip(rest))
         THEN Annotated("annotate", name, "-", source_strip(rest))
         ELSE Unread
    ELSE IF /\ source_hinted(source_strip(SubSeq(rest, 1, eq - 1)))
            /\ source_expression(source_strip(SubSeq(rest, eq + 1, Len(rest))))
    THEN Annotated("assign", name, source_strip(SubSeq(rest, eq + 1, Len(rest))),
                   source_strip(SubSeq(rest, 1, eq - 1)))
    ELSE Unread

\* the simple statements read, colon and eq being the places of ":" and "="
\* in the statement: pass, an import of math, a del of a name, a raise of
\* an exception, an annotated name, an assignment of an expression to a
\* name, a division by 0 on its own; value and hint are the texts of the
\* expression and of the hint
statement_form_at(stmt, colon, eq) ==
    IF stmt = "pass" THEN Effect("pass", "-", "-")
    ELSE IF stmt = "from math import *" THEN Effect("math", "-", "-")
    ELSE IF /\ str_startswith(stmt, "del ")
            /\ source_name(source_strip(SubSeq(stmt, 5, Len(stmt))))
    THEN Effect("del", source_strip(SubSeq(stmt, 5, Len(stmt))), "-")
    ELSE IF /\ str_startswith(stmt, "raise ")
            /\ source_strip(SubSeq(stmt, 7, Len(stmt))) \in Raised
    THEN Effect("raise", source_strip(SubSeq(stmt, 7, Len(stmt))), "-")
    ELSE IF colon > 0 /\ source_name(source_strip(SubSeq(stmt, 1, colon - 1)))
    THEN statement_annotated(source_strip(SubSeq(stmt, 1, colon - 1)),
                             SubSeq(stmt, colon + 1, Len(stmt)),
                             str_find(SubSeq(stmt, colon + 1, Len(stmt)), "=", 1))
    ELSE IF /\ eq > 0
            /\ source_name(source_strip(SubSeq(stmt, 1, eq - 1)))
            /\ source_expression(source_strip(SubSeq(stmt, eq + 1, Len(stmt))))
    THEN Effect("assign", source_strip(SubSeq(stmt, 1, eq - 1)),
                source_strip(SubSeq(stmt, eq + 1, Len(stmt))))
    ELSE IF source_division(stmt) THEN Effect("divide", "-", stmt)
    ELSE Unread

statement_form(stmt) ==
    statement_form_at(stmt, str_find(stmt, ":", 1), str_find(stmt, "=", 1))

\* the condition of the header of a conditional statement: if condition:
if_condition(stmt) == source_strip(SubSeq(stmt, 4, Len(stmt) - 1))

\* the headers read: the condition is a decimal literal, None, True, False
\* or a name
is_if(stmt) ==
    /\ str_startswith(stmt, "if ")
    /\ Len(stmt) >= 5
    /\ Char(stmt, Len(stmt)) = ":"
    /\ \/ source_int(if_condition(stmt))
       \/ if_condition(stmt) \in {"None", "True", "False"}
       \/ source_name(if_condition(stmt))

\* the lines of the source up to the last one that is not blank
source_lines(source) ==
    LET lines == str_split(source, "\n")
        full == {i \in 1..Len(lines) : source_strip(lines[i]) /= ""}
    IN  IF full = {} THEN <<>>
        ELSE SubSeq(lines, 1, CHOOSE i \in full : \A j \in full : i >= j)

\* the source is one simple statement on a line that begins with no blank
source_simple(lines) ==
    /\ Len(lines) = 1
    /\ source_indent(lines[1]) = ""
    /\ statement_form(source_strip(lines[1])).op /= "unread"

\* the source is one conditional statement: a header on a line that begins
\* with no blank, then one simple statement a line, all after the same
\* blanks
source_conditional(lines) ==
    /\ Len(lines) >= 2
    /\ source_indent(lines[1]) = ""
    /\ is_if(source_strip(lines[1]))
    /\ source_indent(lines[2]) /= ""
    /\ \A i \in 2..Len(lines) :
           /\ source_indent(lines[i]) = source_indent(lines[2])
           /\ statement_form(source_strip(lines[i])).op /= "unread"

\* the model reads the source; for a source of blank lines push compiles
\* the statement pass
source_read(source) ==
    \/ source_lines(source) = <<>>
    \/ source_simple(source_lines(source))
    \/ source_conditional(source_lines(source))

\* exec as it ends: self.locals, its "__annotations__" and the exception
\* that ended it ("ok" for none); kept are the values that the console
\* holds outside self.locals while the code runs
Exec(bound, noted, raised, kept) ==
    [locals |-> bound, annotations |-> noted, raised |-> raised, kept |-> kept]

\* name = value, with the hint of an annotated assignment: the value is
\* evaluated and bound first, the hint is noted then
statement_assign(run, form, got) ==
    IF got.raised /= "ok" THEN Exec(run.locals, run.annotations, got.raised, run.kept)
    ELSE Exec(dict_set(run.locals, form.name, got.value),
              IF form.hint = "-" THEN run.annotations
              ELSE Annotations(hints_set(run.annotations.hints, form.name,
                                         source_hint(form.hint))),
              "ok", run.kept)

\* one simple statement is run
statement_run(run, form) ==
    IF form.op = "math"
    THEN Exec(math_import(run.locals), run.annotations, "ok", run.kept)
    ELSE IF form.op = "del"
    THEN IF form.name \in DOMAIN run.locals
         THEN Exec(dict_del(run.locals, form.name), run.annotations, "ok", run.kept)
         ELSE Exec(run.locals, run.annotations, "NameError", run.kept)
    ELSE IF form.op = "raise"
    THEN Exec(run.locals, run.annotations, form.name, run.kept)
    ELSE IF form.op = "divide"
    THEN Exec(run.locals, run.annotations, "ZeroDivisionError", run.kept)
    ELSE IF form.op = "annotate"
    THEN Exec(run.locals,
              Annotations(hints_set(run.annotations.hints, form.name,
                                    source_hint(form.hint))),
              "ok", run.kept)
    ELSE IF form.op = "assign"
    THEN statement_assign(run, form, source_value(form.value, run.locals, run.kept))
    ELSE run

\* the values that are false in a condition, as repr writes them
Falsy == {"0", "None", "False"}

\* the statements of the body are run from line i on, until one raises
RECURSIVE exec_body(_, _, _)
exec_body(lines, i, run) ==
    IF i > Len(lines) \/ run.raised /= "ok" THEN run
    ELSE exec_body(lines, i + 1,
                   statement_run(run, statement_form(source_strip(lines[i]))))

\* the conditional statement is run, got being its condition evaluated
exec_conditional(lines, run, got) ==
    IF got.raised /= "ok" THEN Exec(run.locals, run.annotations, got.raised, run.kept)
    ELSE IF got.value \in Falsy THEN run
    ELSE exec_body(lines, 2, run)

\* the lines read are run
exec_lines(lines, run) ==
    IF lines = <<>> THEN run
    ELSE IF Len(lines) = 1 THEN statement_run(run, statement_form(source_strip(lines[1])))
    ELSE exec_conditional(lines, run,
                          source_value(if_condition(source_strip(lines[1])), run.locals,
                                       run.kept))

\* exec(code, self.locals) for the code of a source read; code with an
\* annotated statement sets up "__annotations__" before it runs
exec_source(bound, noted, kept, source) ==
    exec_lines(source_lines(source),
               Exec(bound,
                    IF \E i \in 1..Len(source_lines(source)) :
                           statement_form(source_strip(source_lines(source)[i])).hint /= "-"
                    THEN Annotations(noted.hints) ELSE noted,
                    "ok", kept))

\* the names that the code run has bound to another value or unbound
Rebound(before, after) ==
    {name \in DOMAIN before \cup DOMAIN after :
        \/ name \notin DOMAIN before
        \/ name \notin DOMAIN after
        \/ before[name] /= after[name]}

\* the names of a list
Names(changed) == {changed[i] : i \in 1..Len(changed)}

\* the end of runcode, given how its try statement ended (ran), self.locals
\* and its "__annotations__" as exec left them (bound, noted), and what
\* check_for_builtins_changes and check_for_annotations do then (check,
\* hinted): the checks run and old_locals is copied unless an exception or
\* os._exit came first
RanCode(answer, effect, bound, noted, ran, check, hinted) ==
    /\ locals' = bound
    /\ annotations' = IF ran.exit \/ IsRaise(ran.ret) THEN noted ELSE hinted.annotations
    /\ saved_builtins' = IF ran.exit \/ IsRaise(ran.ret) THEN saved_builtins
                         ELSE check.saved_builtins
    /\ old_locals' = IF ran.exit \/ IsRaise(ran.ret) THEN old_locals ELSE bound
    /\ quiet' = (quiet \ Rebound(locals, bound))
                    \cup (IF ran.exit \/ IsRaise(ran.ret) THEN {} ELSE Names(check.changed))
    /\ checked' = [op |-> "runcode", answer |-> answer, effect |-> effect,
                   locals |-> locals, saved_builtins |-> saved_builtins,
                   old_locals |-> old_locals, annotations |-> noted,
                   quiet |-> quiet \ Rebound(locals, bound),
                   ret |-> ran.ret, exit |-> ran.exit,
                   ends |-> ~(ran.exit \/ IsRaise(ran.ret)),
                   changed |-> IF ran.exit \/ IsRaise(ran.ret) THEN <<>>
                               ELSE check.changed,
                   output |-> IF ran.exit \/ IsRaise(ran.ret) THEN ran.output
                              ELSE ran.output \o check.output \o hinted.output]

\* runcode for the code of a source read, run being exec of it as it ends;
\* exec ends as the source has it
RanSource(answer, source, run) ==
    /\ source_read(source)
    /\ answer.exec = run.raised
    /\ RanCode(answer, Effect("source", "-", source),
            run.locals, run.annotations, runcode(answer),
            check_for_builtins_changes(saved_builtins, run.locals),
            check_for_annotations(run.locals, old_locals, run.annotations))

\* the state after push(line) has ended as done; what push has written is
\* what runsource wrote and, when the code was run, what runcode wrote.
\* For a source with code there is a step when the source is read and
\* answer.exec is how exec of it ends.
Pushed(line, answer, done) ==
    /\ IF answer.compile = "code"
       THEN RanSource(answer, str_join("\n", Append(buffer, line)),
                      exec_source(locals, annotations,
                                  dict_values(saved_builtins) \cup dict_values(old_locals)
                                      \cup dict_values(locals),
                                  str_join("\n", Append(buffer, line))))
       ELSE UNCHANGED builtins_vars
    /\ buffer' = done.self.buffer
    /\ counter' = done.self.counter
    /\ cache' = done.self.cache
    /\ exited' = done.ran.exit
    /\ samples' = Append(samples, [filename |-> fake_filename(counter),
                                   source |-> str_join("\n", Append(buffer, line)),
                                   compile |-> answer.compile,
                                   ret |-> done.ran.ret])
    /\ pushed' = [op |-> "push", line |-> line, answer |-> answer,
                  buffer |-> buffer, counter |-> counter,
                  filename |-> fake_filename(counter),
                  source |-> str_join("\n", Append(buffer, line)),
                  ret |-> done.ran.ret,
                  output |-> IF answer.compile = "code" THEN checked'.output
                             ELSE done.ran.output]

\* the user enters a line
Push ==
    /\ ~exited
    /\ Len(samples) < MaxPushes
    /\ \E line \in ConsoleLines, answer \in ConsoleAnswers :
          Pushed(line, answer, push(Console(buffer, counter, cache), line, answer))
    /\ UNCHANGED registry_vars

ConsoleNext == Push

\* how exec and explain_traceback end when a code object is run
RunAnswers ==
    {Answer("code", exec, "-") : exec \in {"ok", "SystemExit", "KeyboardInterrupt"}}
    \cup {Answer("code", "ZeroDivisionError", "ok")}

\* what the code run does to the names the console looks at
Effects ==
    {NoEffect,
     Effect("assign", "len", "1"), Effect("assign", "len", "float('nan')"),
     Effect("assign", "__name__", "__main__"),
     Effect("del", "len", "-"), Effect("del", "cos", "-"),
     Effect("math", "-", "-"),
     Annotated("annotate", "x", "-", "3"),
     Annotated("assign", "len", "1", "<class 'int'>")}

\* runcode for code with the effect, bound and noted being self.locals and
\* its "__annotations__" as exec left them
RanEffect(answer, effect, bound, noted) ==
    RanCode(answer, effect, bound, noted, runcode(answer),
            check_for_builtins_changes(saved_builtins, bound),
            check_for_annotations(bound, old_locals, noted))

\* a code object is run: FriendlyConsole.runcode(code)
RunCode ==
    /\ ~exited
    /\ \E answer \in RunAnswers, effect \in Effects :
          /\ effect.op = "del" => effect.name \in DOMAIN locals
          /\ exited' = runcode(answer).exit
          /\ RanEffect(answer, effect,
                       exec_locals(locals, effect,
                                   dict_values(saved_builtins) \cup dict_values(old_locals)),
                       exec_annotations(annotations, effect))
    /\ UNCHANGED registry_vars
    /\ UNCHANGED <<buffer, counter, cache, samples, pushed>>

BuiltinsNext == RunCode

\* the builtins of a console on its own
BuiltinsSpec == Init /\ [][BuiltinsNext]_vars

\* a console on its own: the registries stay as they are
ConsoleSpec == Init /\ [][ConsoleNext]_vars

(***************************************************************************)
(* formatter.py                                                            *)
(***************************************************************************)
\* generic_info.generic[name](): the generic explanation of a kind of
\* exception, with an entry "Unknown" for the kinds it does not know
generic(name) ==
    IF name \in {"NameError", "KeyError", "ZeroDivisionError"}
    THEN "    A " \o name \o " exception has a generic explanation.\n"
    ELSE "    No information is known about this exception.\n"

\* formatter.provide_generic_explanation(name, value)
provide_generic_explanation(name, value) ==
    "\n    Python exception: \n        " \o name \o ": " \o value.str \o "\n\n"
    \o generic(name)

\* the kind of exception is not in specific_info.get_cause
Absent == [t |-> "absent"]

\* formatter.get_likely_cause(etype, value); handler is what
\* specific_info.get_cause holds for the kind: Absent when the kind is not
\* in the dict, else what the handler returns, a text or None
formatter_get_likely_cause(etype, value, handler) ==
    IF handler /= Absent
    THEN Str("    Likely cause:\n" \o py_str(handler))
    ELSE None

\* os.path.basename(filename)
basename(filename) ==
    LET slashes == {i \in 1..Len(filename) : Char(filename, i) = "/"}
    IN  IF slashes = {} THEN filename
        ELSE SubSeq(filename,
                    (CHOOSE i \in slashes : \A j \in slashes : j <= i) + 1,
                    Len(filename))

\* utils.highlight_source(linenumber, index, lines): the lines numbered, the
\* line of the fault marked with an arrow
RECURSIVE highlight_source_from(_, _, _, _)
highlight_source_from(linenumber, index, lines, i) ==
    IF i > Len(lines) THEN ""
    ELSE (IF i = index + 1 THEN "    -->" ELSE "       ")
         \o ToString(linenumber - index + i - 1) \o ": " \o lines[i]
         \o highlight_source_from(linenumber, index, lines, i + 1)

highlight_source(linenumber, index, lines) ==
    highlight_source_from(linenumber, index.v, lines, 1)

\* formatter.get_source_info(filename, linenumber, lines, index)
get_source_info(filename, linenumber, lines, index) ==
    IF filename = "" THEN Raise("FileNotFoundError")
    ELSE [t |-> "dict", filename |-> basename(filename),
          source |-> IF ~IsNone(index) THEN highlight_source(linenumber, index, lines)
                     ELSE "Cannot find source code.",
          linenumber |-> linenumber]

\* formatter.add_source_info(info, last_call)
add_source_info(info, last_call) ==
    IF last_call
    THEN "\n    Execution stopped on line " \o ToString(info.linenumber)
         \o " of file '" \o info.filename \o "'.\n\n" \o info.source \o "\n"
    ELSE "\n    Exception raised on line " \o ToString(info.linenumber)
         \o " of file '" \o info.filename \o "'.\n\n" \o info.source \o "\n"

\* get_source_info and add_source_info for one record of the call chain
source_part(record, last_call) ==
    IF IsRaise(get_source_info(record.filename, record.linenumber, record.lines,
                               record.index))
    THEN get_source_info(record.filename, record.linenumber, record.lines, record.index)
    ELSE Str(add_source_info(get_source_info(record.filename, record.linenumber,
                                             record.lines, record.index),
                             last_call))

\* explain_traceback from part 3 on: result holds parts 1 and 2, last_call
\* and origin are the parts for records[0] and records[-1]
explain_traceback_parts(result, records, last_call, origin) ==
    IF Len(records) = 0 THEN Raise("IndexError")
    ELSE IF IsRaise(last_call) THEN last_call
    ELSE IF Len(records) > 1
    THEN IF IsRaise(origin) THEN origin
         ELSE Str(str_join("\n", result \o <<last_call.s, origin.s>>))
    ELSE Str(str_join("\n", result \o <<last_call.s>>))

\* explain_traceback once the cause is known
explain_traceback_cause(generic_part, cause, records) ==
    explain_traceback_parts(
        IF ~IsNone(cause) THEN <<generic_part, cause.s>> ELSE <<generic_part>>,
        records,
        IF Len(records) = 0 THEN None ELSE source_part(records[1], TRUE),
        IF Len(records) = 0 THEN None ELSE source_part(records[Len(records)], FALSE))

\* formatter.explain_traceback(etype, value, tb); records is what
\* inspect.getinnerframes(tb, CONTEXT) returns, handler as in get_likely_cause
formatter_explain_traceback(etype, value, records, handler) ==
    explain_traceback_cause(provide_generic_explanation(etype, value),
                            formatter_get_likely_cause(etype, value, handler),
                            records)

\* a record of the call chain: file, line number, context lines, index of
\* the line in the context
Record(filename, linenumber, lines, index) ==
    [filename |-> filename, linenumber |-> linenumber, lines |-> lines, index |-> index]

RecordCaller ==
    Record("/home/user/tb_common.py", 48,
           <<"mod = __import__(name)\n", "if function is not None:\n",
             "    getattr(mod, function)()\n", "except Exception:\n">>, PyInt(2))

RecordMiddle == Record("/home/user/middle.py", 3, <<"import raise_name_error\n">>, PyInt(0))

RecordOrigin ==
    Record("raise_name_error.py", 8, <<"a = 1\n", "b = c\n", "d = 3\n">>, PyInt(1))

\* without source, lines and index are both None; lines is not read then
RecordNoSource == Record("<stdin>", 1, <<>>, None)

RecordNoFile == Record("", 1, <<>>, None)

\* the call chains: none (tb is None), one to three records, records
\* without source and without a file name
CallChains ==
    {<<>>, <<RecordOrigin>>, <<RecordNoSource>>, <<RecordNoFile>>,
     <<RecordCaller, RecordOrigin>>, <<RecordCaller, RecordNoSource>>,
     <<RecordCaller, RecordNoFile>>, <<RecordCaller, RecordMiddle, RecordOrigin>>}

\* what specific_info.get_cause answers for the kind
HandlerAnswers ==
    {Absent, None,
     Str("        In your program, the unknown name is 'c'.\n"),
     Str("        The key is not in the dict.\n")}

\* the exceptions explained
FormatterFaults ==
    {[etype |-> "NameError", value |-> Value("name 'c' is not defined", <<>>)],
     [etype |-> "KeyError", value |-> Value("'foo'", <<>>)],
     [etype |-> "ZeroDivisionError", value |-> Value("division by zero", <<>>)],
     [etype |-> "MyError", value |-> Value("boom", <<>>)]}

\* a caller asks formatter.explain_traceback for the report on an exception
ExplainTraceback ==
    /\ last = Idle
    /\ \E fault \in FormatterFaults, records \in CallChains, handler \in HandlerAnswers :
          last' = [op |-> "formatter.explain_traceback", etype |-> fault.etype,
                   value |-> fault.value, records |-> records, handler |-> handler,
                   result |-> formatter_explain_traceback(fault.etype, fault.value,
                                                          records, handler)]
    /\ UNCHANGED <<MESSAGE_ANALYZERS, loaded_analyzers, get_cause, loaded_handlers,
                   registrations>>
    /\ UNCHANGED console_vars

FormatterNext ==
    \/ ExplainTraceback
    \/ Discard

\* the formatter on its own: the registries and the console stay as they are
FormatterSpec == Init /\ [][FormatterNext]_vars

(***************************************************************************)
(* Properties                                                              *)
(***************************************************************************)
Analyzed == last.op = "analyze_message"

Inferred == last.op = "get_likely_cause"

\* what each matcher of the chain answers, alone, to the request just served
AnswerOf(i) == call_analyzer(MESSAGE_ANALYZERS[i], last.kw, last.ext)

\* the matchers that end the loop of analyze_message: a cause or an exception
Decisive == {i \in 1..Len(MESSAGE_ANALYZERS) : Truthy(AnswerOf(i)) \/ IsRaise(AnswerOf(i))}

BothTriggers(message) ==
    /\ str_contains("expression cannot contain assignment, perhaps you meant", message)
    /\ str_contains("keyword can't be an expression", message)

\* C1: analyze_message runs the matchers in registration order and returns
\* exactly the answer of the first matcher that has one (a cause, or the
\* exception it raises); no later matcher's answer is returned, and None is
\* returned only when no matcher has an answer.  A message that holds the
\* triggers of rule 8 and of rule 9 gets the explanation of rule 8, never
\* that of rule 9.
C1_FirstMatcherWins ==
    Analyzed =>
        /\ IF Decisive = {} THEN last.result = None
           ELSE \E i \in Decisive :
                   /\ \A j \in Decisive : i <= j
                   /\ last.result = AnswerOf(i)
        /\ BothTriggers(last.kw.message) =>
               /\ last.result =
                      Str("One of the following two possibilities could be the cause:\n"
                          \o "1. You meant to do a comparison with == and wrote = instead.\n"
                          \o "2. You called a function with a named argument:\n\n"
                          \o "       a_function(invalid=something)\n\n"
                          \o "where 'invalid' is not a valid variable name in Python\n"
                          \o "either because it starts with a number, or is a string,\n"
                          \o "or contains a period, etc.\n\n")
               /\ last.result /= keyword_cannot_be_expression(last.kw, last.ext)

\* a message with both triggers, the trigger of rule 9 first in the text, was
\* analyzed: both matchers have a cause for it
C1_Witness ==
    /\ Analyzed
    /\ BothTriggers(last.kw.message)
    /\ str_startswith(last.kw.message, "keyword can't be an expression")
    /\ Cardinality(Decisive) = 2
    /\ last.result.t = "str"

\* the catalogue of the specification, rules 1 to 23 in priority order, each
\* named by the function that implements it
Catalogue ==
    <<"assign_to_keyword",                       \* 1 assignment to a reserved word
      "assign_to_function_call",                 \* 2 assignment to a call expression
      "assign_to_literal",                       \* 3 assignment to a literal value
      "break_outside_loop",                      \* 4 break outside a loop
      "continue_outside_loop",                   \* 5 continue outside a loop
      "delete_function_call",                    \* 6 deletion of a call expression
      "eol_while_scanning_string_literal",       \* 7 unterminated string literal
      "expression_cannot_contain_assignment",    \* 8 assignment where == or a keyword argument was meant
      "keyword_cannot_be_expression",            \* 9 keyword as expression
      "invalid_character_in_identifier",         \* 10 invalid character in an identifier
      "mismatched_parenthesis",                  \* 11 mismatched closing bracket
      "unterminated_f_string",                   \* 12 unterminated text-interpolation literal
      "name_is_parameter_and_global",            \* 13 name is parameter and declared
      "name_assigned_to_prior_global",           \* 14 assigned before declaration, outer scope
      "name_used_prior_global",                  \* 15 used before declaration, outer scope
      "name_assigned_to_prior_nonlocal",         \* 16 assigned before declaration, inner scope
      "name_used_prior_nonlocal",                \* 17 used before declaration, inner scope
      "unexpected_character_after_continuation", \* 18 text after a line continuation
      "unexpected_eof_while_parsing",            \* 19 unexpected end of input
      "unmatched_parenthesis",                   \* 20 unmatched closing bracket
      "position_argument_follows_keyword_arg",   \* 21 positional after keyword argument
      "non_default_arg_follows_default_arg",     \* 22 non-default after default parameter
      "python2_print">>                          \* 23 legacy print statement

\* C2: once message_analyzer is loaded, MESSAGE_ANALYZERS holds exactly the
\* 23 matchers of the catalogue, each once, in the priority order 1..23;
\* while it loads, the list is the catalogue's prefix registered so far.
C2_ChainIsCatalogue ==
    /\ MESSAGE_ANALYZERS = SubSeq(Catalogue, 1, loaded_analyzers)
    /\ AnalyzersLoaded =>
           /\ Len(MESSAGE_ANALYZERS) = 23
           /\ MESSAGE_ANALYZERS = Catalogue
           /\ \A i, j \in 1..23 :
                  MESSAGE_ANALYZERS[i] = MESSAGE_ANALYZERS[j] => i = j

\* the module is loaded and the chain has served a request
C2_Witness ==
    /\ AnalyzersLoaded
    /\ Analyzed
    /\ MESSAGE_ANALYZERS[1] = "assign_to_keyword"
    /\ MESSAGE_ANALYZERS[23] = "python2_print"

\* no matcher of the chain recognizes the message
Unrecognized(message) ==
    \A i \in 1..Len(MESSAGE_ANALYZERS) : ~recognizes(MESSAGE_ANALYZERS[i], message)

\* C3: when no matcher of the chain recognizes the message, analyze_message
\* returns None and raises nothing, whatever the line, the line number, the
\* source lines, the offset and the bracket analyzer's answers are.
C3_NoMatchIsNone ==
    (Analyzed /\ Unrecognized(last.kw.message)) => last.result = None

\* an unrecognized message was analyzed with a line and a location that other
\* matchers would have used
C3_Witness ==
    /\ Analyzed
    /\ last.kw.message = "invalid syntax"
    /\ Unrecognized(last.kw.message)
    /\ last.kw.line = "5 = x"
    /\ last.kw.linenumber = None
    /\ last.result = None

\* C4: for a fault kind that has no handler in get_cause, get_likely_cause
\* returns None and raises nothing; no handler is called and the info dict is
\* left as it was, without "cause" and "cause_header".
C4_NoHandlerIsAbsent ==
    (Inferred /\ last.etype \notin DOMAIN get_cause) =>
        /\ last.result.ret = None
        /\ last.result.called = None
        /\ last.result.info = last.info
        /\ "cause" \notin DOMAIN last.result.info
        /\ "cause_header" \notin DOMAIN last.result.info

\* an exception whose name is not in the registry was handed over with an info
\* dict that is not empty
C4_Witness ==
    /\ Inferred
    /\ last.etype = "RuntimeError"
    /\ last.etype \notin DOMAIN get_cause
    /\ "message" \in DOMAIN last.info
    /\ last.result.ret = None

\* C5: an exception raised by a registered handler is caught by
\* get_likely_cause and counts as "no cause": it does not reach the caller.
C5_HandlerFaultIsCaught ==
    Inferred => ~IsRaise(last.result.ret)

\* the engine let a handler's IndexError through: FileNotFoundError with a
\* message without quotes, under the handler that the module registers
C5_Witness ==
    /\ Inferred
    /\ last.etype = "FileNotFoundError"
    /\ last.value.str = "Cannot find None"
    /\ get_cause["FileNotFoundError"] = "file_not_found_error"
    /\ last.result.ret = Raise("IndexError")
    /\ "cause" \notin DOMAIN last.result.info

\* the registrations of a tag, by position in the history
RegistrationsOf(tag) ==
    {i \in 1..Len(registrations) : registrations[i].error_name = tag}

Tags == {HandlerDefs[i].error_name : i \in 1..Len(HandlerDefs)}
        \cup {def.error_name : def \in ExtensionDefs}
        \cup {req.fault.etype : req \in CauseRequests}

\* C6: after any sequence of registrations, a tag is bound exactly when it
\* was registered, to one handler, the one of its most recent registration.
C6_LastRegistrationWins ==
    /\ DOMAIN get_cause \subseteq Tags
    /\ \A tag \in Tags :
          IF RegistrationsOf(tag) = {} THEN tag \notin DOMAIN get_cause
          ELSE /\ tag \in DOMAIN get_cause
               /\ \E i \in RegistrationsOf(tag) :
                     /\ \A j \in RegistrationsOf(tag) : j <= i
                     /\ get_cause[tag] = registrations[i].function

\* KeyError was registered three times, by the module and twice by an
\* extension, with different handlers
C6_Witness ==
    /\ Cardinality(RegistrationsOf("KeyError")) = 3
    /\ registrations[Len(registrations)].function = "extension_text"
    /\ registrations[Len(registrations) - 1].function = "extension_none"
    /\ get_cause["KeyError"] = "extension_text"
    /\ get_cause["FileNotFoundError"] = "file_not_found_error"

\* what the handler bound to the fault's kind answers to the request just served
HandlerAnswer ==
    call_handler(get_cause[last.etype], last.value, last.info, "frame", last.sub).ret

\* C7: info["cause"] is written only when the handler looked up returned a
\* value that is not None, and it is that value; info["cause_header"] is
\* written exactly when info["cause"] is; when the handler returns None (or
\* there is none, or it raises) neither is written.
C7_NoFabricatedCause ==
    Inferred =>
        LET info == last.result.info
        IN  /\ "cause" \in DOMAIN info <=> "cause_header" \in DOMAIN info
            /\ "cause" \in DOMAIN info <=>
                   /\ last.etype \in DOMAIN get_cause
                   /\ HandlerAnswer.t = "str"
            /\ "cause" \in DOMAIN info =>
                   /\ info["cause"] = HandlerAnswer
                   /\ info["cause_header"] = Str(cause_header_text)
            /\ \A k \in DOMAIN last.info : k \in DOMAIN info /\ info[k] = last.info[k]

\* one handler returned a text, which became the cause
C7_Witness ==
    /\ Inferred
    /\ last.etype = "KeyError"
    /\ last.value.args = <<Str("foo")>>
    /\ get_cause["KeyError"] = "key_error"
    /\ "cause" \in DOMAIN last.result.info
    /\ str_contains("foo", last.result.info["cause"].s)

\* C8: a call of get_likely_cause or of analyze_message leaves get_cause and
\* MESSAGE_ANALYZERS as they are; get_cause changes only in a step that
\* applies register, MESSAGE_ANALYZERS only in a step of add_python_message.
C8_RequestsDoNotWriteRegistries ==
    [][/\ last'.op \in {"analyze_message", "get_likely_cause"} /\ last.op = "idle" =>
              /\ get_cause' = get_cause
              /\ MESSAGE_ANALYZERS' = MESSAGE_ANALYZERS
       /\ get_cause' /= get_cause => Len(registrations') = Len(registrations) + 1
       /\ MESSAGE_ANALYZERS' /= MESSAGE_ANALYZERS => loaded_analyzers' = loaded_analyzers + 1
      ]_vars

\* a request was served in which the handler raised, with the registries
\* as loading left them
C8_Witness ==
    /\ Inferred
    /\ IsRaise(last.result.ret)
    /\ Len(registrations) = Len(HandlerDefs)
    /\ DOMAIN get_cause = {HandlerDefs[i].error_name : i \in 1..Len(HandlerDefs)}
    /\ MESSAGE_ANALYZERS = AnalyzerDefs

\* C9: for the message "'break' outside loop", analyze_message returns the
\* fixed template of rule 4, whatever the line, the line number, the source
\* lines and the offset are.
C9_BreakTemplate ==
    (Analyzed /\ last.kw.message = "'break' outside loop") =>
        last.result = Str("The Python keyword 'break' can only be used "
                          \o "inside a for loop or inside a while loop.\n")

\* the message was analyzed with a line that holds no keyword and without a
\* location
C9_Witness ==
    /\ Analyzed
    /\ last.kw.message = "'break' outside loop"
    /\ last.kw.line = "5 = x"
    /\ last.kw.linenumber = None
    /\ last.kw.offset = None
    /\ last.result.t = "str"

\* the places of "=" in a line
EqualSigns(line) == {i \in 1..Len(line) : Char(line, i) = "="}

\* the place of the first "=" of a line that has one
FirstEqual(line) == CHOOSE i \in EqualSigns(line) : \A j \in EqualSigns(line) : i <= j

\* the place of the "=" that follows the first, or the place after the end
\* of the line when there is none
NextEqual(line) ==
    CHOOSE i \in (EqualSigns(line) \ {FirstEqual(line)}) \cup {Len(line) + 1} :
        \A j \in (EqualSigns(line) \ {FirstEqual(line)}) \cup {Len(line) + 1} : i <= j

\* the text left of the first "=" of a line, stripped
LeftOfEqual(line) == str_strip(SubSeq(line, 1, FirstEqual(line) - 1))

\* the text right of the first "=" of a line, stripped
RightOfEqual(line) == str_strip(SubSeq(line, FirstEqual(line) + 1, Len(line)))

\* the text between the first "=" of a line and the next one, stripped: the
\* text right of the "=" when the line has one "="
AfterEqual(line) == str_strip(SubSeq(line, FirstEqual(line) + 1, NextEqual(line) - 1))

AsciiLetters == Chars("abcdefghijklmnopqrstuvwxyzABCDEFGHIJKLMNOPQRSTUVWXYZ")

AsciiDigits == Chars("0123456789")

\* letters, digits, the space and punctuation of ASCII, without the backslash
AsciiPlain == AsciiLetters \cup AsciiDigits \cup Chars(" _.,:;()[]{}'\"+-*/<>=!#")

\* the texts made of letters, digits and the punctuation of ASCII that the
\* lines analyzed hold
PlainText(s) ==
    \A i \in 1..Len(s) : Char(s, i) \in AsciiPlain

\* a name as the grammar of Python has it, among the texts of ASCII: a
\* letter or "_", then letters, digits and "_"; a keyword is such a name
Identifier(s) ==
    /\ Len(s) >= 1
    /\ Char(s, 1) \in AsciiLetters \cup {"_"}
    /\ \A i \in 2..Len(s) : Char(s, i) \in AsciiLetters \cup AsciiDigits \cup {"_"}

\* the explanation of assign_to_literal for the literal L and the name R,
\* and the suggestion to swap them
NamesSides(text, L, R) ==
    str_startswith(text,
        "You wrote an expression like\n    " \o L \o " = " \o R \o "\n"
        \o "where <" \o L \o ">, on the left hand-side of the equal sign, is\n")

SuggestsSwap(text, L, R) ==
    str_contains(" Perhaps you meant to write:\n    " \o R \o " = " \o L \o "\n", text)

\* assign_to_literal has explained a line that has a "="
LiteralExplained ==
    /\ Analyzed
    /\ last.kw.message \in {"can't assign to literal", "cannot assign to literal"}
    /\ EqualSigns(last.kw.line) /= {}

\* C10: for the message "can't assign to literal" or "cannot assign to
\* literal" and a line with a "=", L being the text left of the first "=" and
\* R the text between it and the next "=" (the text right of the "=" when
\* the line has one "="), both stripped: the explanation names L as the
\* literal and R as the name, and it holds the suggestion "R = L" exactly
\* when R is an identifier; for the line "5 = x" the suggestion is "x = 5".
C10_AssignToLiteral ==
    LiteralExplained =>
        /\ last.result.t = "str"
        /\ NamesSides(last.result.s, LeftOfEqual(last.kw.line), AfterEqual(last.kw.line))
        /\ PlainText(AfterEqual(last.kw.line)) =>
               /\ SuggestsSwap(last.result.s, LeftOfEqual(last.kw.line),
                               AfterEqual(last.kw.line))
                      <=> Identifier(AfterEqual(last.kw.line))
               /\ str_contains("Perhaps you meant", last.result.s)
                      <=> Identifier(AfterEqual(last.kw.line))
        /\ last.kw.line = "5 = x" =>
               str_contains(" Perhaps you meant to write:\n    x = 5\n", last.result.s)
        /\ last.kw.line = "5 = 𰂀" =>
               str_contains(" Perhaps you meant to write:\n    𰂀 = 5\n", last.result.s)
        /\ last.kw.line \in {"1 = 2", "3.5 = x.y", "12 ="} =>
               ~str_contains("Perhaps you meant", last.result.s)

\* C10 as it is stated, R being the text right of the "=": the explanation
\* names L and R, and suggests "R = L" exactly when R is an identifier
C10_RightOfEqualIsTheName ==
    LiteralExplained =>
        /\ last.result.t = "str"
        /\ NamesSides(last.result.s, LeftOfEqual(last.kw.line), RightOfEqual(last.kw.line))
        /\ PlainText(RightOfEqual(last.kw.line)) =>
               (str_contains("Perhaps you meant", last.result.s)
                    <=> Identifier(RightOfEqual(last.kw.line)))

\* the line "5 = x" was analyzed and the swap was suggested
C10_Witness ==
    /\ LiteralExplained
    /\ last.kw.message = "can't assign to literal"
    /\ last.kw.line = "5 = x"
    /\ str_contains("x = 5", last.result.s)

\* a line with a right side that is no identifier was analyzed
C10_WitnessNoSuggestion ==
    /\ LiteralExplained
    /\ last.kw.message = "cannot assign to literal"
    /\ last.kw.line = "3.5 = x.y"
    /\ last.result.t = "str"
    /\ ~str_contains("Perhaps", last.result.s)

\* a line with two "=" was analyzed: the name is the text between them, and
\* the text right of the first "=" is no identifier
C10_WitnessChained ==
    /\ LiteralExplained
    /\ last.kw.line = "5 = x = 3"
    /\ AfterEqual(last.kw.line) = "x"
    /\ RightOfEqual(last.kw.line) = "x = 3"
    /\ SuggestsSwap(last.result.s, "5", "x")

\* import_error.get_cause has been called directly
ImportAnswered == last.op = "import_error.get_cause"

\* the request is "cannot import name 'foo' from 'bar'" (Python 3.7), with a
\* traceback whose imports are not circular and the module bar loaded
PlainImportFault ==
    /\ ImportAnswered
    /\ str_startswith(last.value.str, "cannot import name 'foo' from 'bar'")
    /\ "simulated_python_traceback" \in DOMAIN last.info
    /\ last.info["simulated_python_traceback"] = Str(TracebackChain)
    /\ "bar" \in last.env.sys_modules

\* C11: for "cannot import name 'N' from 'M'" without a circular import, with
\* k names returned by get_similar_words for the loaded module M: k = 0 gives
\* the plain explanation naming N and M and no suggestion; k = 1 gives the
\* suggestion "Did you mean" naming the candidate; k >= 2 gives the suggestion
\* "Did you mean one of the following" with every candidate in it, in order.
C11_SimilarNames ==
    PlainImportFault =>
        LET similar == last.env.similar
            info == last.result.info
        IN  /\ Len(similar) = 0 =>
                 /\ last.result.ret =
                        Str("The object that could not be imported is " \o BQ \o "foo"
                            \o BQ \o ".\nThe module or package where it was \n"
                            \o "expected to be found is " \o BQ \o "bar" \o BQ \o ".\n")
                 /\ info = last.info
                 /\ "suggest" \notin DOMAIN info
            /\ Len(similar) = 1 =>
                 /\ "suggest" \in DOMAIN info
                 /\ info["suggest"] = Str("Did you mean " \o BQ \o similar[1] \o BQ \o "?\n")
                 /\ str_contains(similar[1], last.result.ret.s)
            /\ Len(similar) >= 2 =>
                 /\ "suggest" \in DOMAIN info
                 /\ str_startswith(info["suggest"].s, "Did you mean one of the following: ")
                 /\ ~str_contains("Did you mean " \o BQ, info["suggest"].s)
                 /\ \A i \in 1..Len(similar) :
                        ~str_contains("'", similar[i]) =>
                            /\ str_contains(similar[i], info["suggest"].s)
                            /\ str_contains(similar[i], last.result.ret.s)
                 /\ similar = <<"food", "fo'o", "Foo">> =>
                        info["suggest"] = Str("Did you mean one of the following: "
                                              \o BQ \o "food, foo, Foo" \o BQ \o "?\n")
            /\ \A k \in DOMAIN last.info : k \in DOMAIN info /\ info[k] = last.info[k]

\* three similar names were found in the module, and all three are suggested
C11_Witness ==
    /\ PlainImportFault
    /\ Len(last.env.similar) = 3
    /\ str_contains("food, foo, Foo", last.result.info["suggest"].s)

\* one similar name was found
C11_WitnessOne ==
    /\ PlainImportFault
    /\ last.env.similar = <<"food">>
    /\ "suggest" \in DOMAIN last.result.info

\* no similar name was found
C11_WitnessNone ==
    /\ PlainImportFault
    /\ last.env.similar = <<>>
    /\ last.result.ret.t = "str"

\* a KeyError with its key was handed to get_likely_cause while the handler
\* of the module is the one registered
KeyFault ==
    /\ Inferred
    /\ last.etype = "KeyError"
    /\ get_cause["KeyError"] = "key_error"
    /\ Len(last.value.args) >= 1

\* a key that repr writes as it is: an int, or a text of letters, digits,
\* spaces and punctuation of ASCII without a backslash and without both
\* kinds of quote
PlainKey(key) ==
    \/ key.t = "int"
    \/ /\ key.t = "str"
       /\ \A i \in 1..Len(key.s) : Char(key.s, i) \in AsciiPlain
       /\ ~(str_contains("'", key.s) /\ str_contains("\"", key.s))

\* C12: for a KeyError the registered handler returns a cause text that holds
\* the key as Python's message shows it (its repr), hence the key itself when
\* repr escapes nothing in it (foo, widget); get_likely_cause writes that
\* cause, unchanged, into info["cause"].
C12_KeyIsReported ==
    KeyFault =>
        /\ last.result.cause.t = "str"
        /\ str_startswith(last.result.cause.s,
                          "In your program, the key that cannot be found is " \o BQ)
        /\ str_contains(BQ \o last.value.str \o BQ, last.result.cause.s)
        /\ PlainKey(last.value.args[1]) =>
               str_contains(py_str(last.value.args[1]), last.result.cause.s)
        /\ last.value.args[1] = Str("foo") => str_contains("foo", last.result.cause.s)
        /\ last.value.args[1] = Str("widget") => str_contains("widget", last.result.cause.s)
        /\ last.result.ret = None
        /\ "cause" \in DOMAIN last.result.info
        /\ last.result.info["cause"] = last.result.cause

\* C12 as it is stated: the cause text holds the key
C12_CauseHoldsKey ==
    KeyFault =>
        /\ last.result.cause.t = "str"
        /\ str_contains(py_str(last.value.args[1]), last.result.cause.s)
        /\ "cause" \in DOMAIN last.result.info
        /\ last.result.info["cause"] = last.result.cause

\* the key widget was not found, and the cause written names it
C12_Witness ==
    /\ KeyFault
    /\ last.value.args = <<Str("widget")>>
    /\ str_contains("widget", last.result.info["cause"].s)

\* a key with a backslash and a newline is reported as repr writes it: the
\* cause does not hold the key
C12_WitnessEscaped ==
    /\ KeyFault
    /\ ~PlainKey(last.value.args[1])
    /\ ~str_contains(last.value.args[1].s, last.result.info["cause"].s)
    /\ str_contains("a\\\\b\\n", last.result.info["cause"].s)

\* a key with a character beyond the Basic Multilingual Plane that repr
\* escapes: the cause holds the escape and not the character
C12_WitnessAstral ==
    /\ KeyFault
    /\ last.value.args = <<Str("󰂀")>>
    /\ str_contains(BQ \o "'\\U000f0080'" \o BQ, last.result.info["cause"].s)
    /\ ~str_contains("󰂀", last.result.info["cause"].s)

\* find_circular_import has been called directly
CircularAnswered == last.op = "find_circular_import"

\* the traceback of the request just served ("" when info has none)
TracebackOf(info) ==
    IF "simulated_python_traceback" \in DOMAIN info
    THEN info["simulated_python_traceback"].s
    ELSE ""

\* the (file, module) pairs of the tracebacks, read off their lines by hand;
\* the files are as shorten_path writes them
ExpectedPairs(tb) ==
    CASE tb = TracebackCircular ->
             <<(<<"~/main.py", "bar">>), (<<"~/bar.py", "baz">>), (<<"/srv/baz.py", "bar">>)>>
      [] tb = TracebackChain ->
             <<(<<"~/main.py", "baz">>), (<<"/srv/baz.py", "bar">>)>>
      [] tb = TracebackTwice ->
             <<(<<"~/main.py", "bar">>), (<<"/srv/one.py", "baz">>), (<<"/srv/two.py", "bar">>),
               (<<"", "baz">>), (<<"/srv/three.py", "bar">>)>>

\* the entries before the last one that import the module of the last one
Reoccurs(pairs) ==
    {i \in 1..(Len(pairs) - 1) : pairs[i][2] = pairs[Len(pairs)][2]}

\* C13: find_circular_import builds the sequence of (file, module) pairs of
\* the traceback in order; it returns the narrative exactly when the module
\* of the last pair comes in an earlier pair, naming the file of the first
\* such pair and the file of the last pair, and None otherwise.
C13_CircularImportFound ==
    (CircularAnswered
        /\ TracebackOf(last.info) \in {TracebackCircular, TracebackChain, TracebackTwice}) =>
        LET pairs == ExpectedPairs(TracebackOf(last.info))
            first == CHOOSE i \in Reoccurs(pairs) : \A j \in Reoccurs(pairs) : i <= j
        IN  /\ last.modules_imported = [t |-> "list", items |-> pairs]
            /\ Reoccurs(pairs) = {} <=> last.result = None
            /\ Reoccurs(pairs) /= {} =>
                 /\ last.result.t = "str"
                 /\ str_contains("started executing the code in file\n   '"
                                 \o pairs[first][1] \o "'.\n", last.result.s)
                 /\ str_contains("the code in another file,\n   '"
                                 \o pairs[Len(pairs)][1] \o "'\n", last.result.s)
                 /\ str_contains("which imports module " \o BQ \o pairs[Len(pairs)][2] \o BQ,
                                 last.result.s)
                 /\ \A i \in Reoccurs(pairs) \ {first} :
                        pairs[i][1] /= pairs[first][1] =>
                            ~str_contains("'" \o pairs[i][1] \o "'", last.result.s)

\* the module bar is imported by three files; the first and the last of them
\* are reported
C13_Witness ==
    /\ CircularAnswered
    /\ TracebackOf(last.info) = TracebackTwice
    /\ str_contains("'~/main.py'", last.result.s)
    /\ str_contains("'/srv/three.py'", last.result.s)

\* a chain of imports without a module that comes twice: None
C13_WitnessNone ==
    /\ CircularAnswered
    /\ TracebackOf(last.info) = TracebackChain
    /\ last.result = None
    /\ Len(last.modules_imported.items) = 2

\* C14: for a traceback line "import os, bar" find_circular_import appends
\* one pair per module, (file, os) then (file, bar), with the current file,
\* and goes on with the lines that follow.
C14_CommaImportIsSplit ==
    (CircularAnswered /\ TracebackOf(last.info) = TracebackComma) =>
        /\ ~IsRaise(last.result)
        /\ last.modules_imported.t = "list"
        /\ Len(last.modules_imported.items) = 3
        /\ last.modules_imported.items[1][1] = "~/main.py"
        /\ str_strip(last.modules_imported.items[1][2]) = "os"
        /\ last.modules_imported.items[2][1] = "~/main.py"
        /\ str_strip(last.modules_imported.items[2][2]) = "bar"
        /\ last.modules_imported.items[3] = <<"~/bar.py", "bar">>

\* the traceback with "import os, bar" was searched: the call ended with
\* AttributeError and no list was built
C14_Witness ==
    /\ CircularAnswered
    /\ TracebackOf(last.info) = TracebackComma
    /\ last.result = Raise("AttributeError")
    /\ last.modules_imported = Raise("AttributeError")

\* the bracket analyzer had nothing to say: an empty text or None
NoAdditionalInformation(answer) == answer = Str("") \/ answer = None

\* the request with the same message and location, had the bracket analyzer
\* answered with empty texts
WithoutBrackets == analyze_message(MESSAGE_ANALYZERS, last.kw, DefaultExt)

\* C15: when the bracket analyzer returns an empty or absent result, the
\* mismatched-closing-bracket matcher returns its base explanation without an
\* additional part, and the unexpected-end-of-input matcher returns its
\* explanation and does not raise.
C15_NoBracketAnswerIsNoError ==
    /\ (Analyzed /\ mismatched_parenthesis_pre(last.kw.message)
            /\ NoAdditionalInformation(last.ext.look_for_mismatched_brackets)) =>
           /\ last.result.t = "str"
           /\ last.result = WithoutBrackets
           /\ str_startswith(last.result.s, "Python tells us that the closing")
    /\ (Analyzed /\ str_contains("unexpected EOF while parsing", last.kw.message)
            /\ NoAdditionalInformation(last.ext.look_for_missing_bracket)) =>
           /\ ~IsRaise(last.result)
           /\ last.result.t = "str"
           /\ last.result = WithoutBrackets

\* the unexpected-end-of-input matcher was given None by the bracket
\* analyzer: the call ended with TypeError
C15_Witness ==
    /\ Analyzed
    /\ last.kw.message = "unexpected EOF while parsing"
    /\ last.ext.look_for_missing_bracket = None
    /\ last.result = Raise("TypeError")

\* the mismatched-closing-bracket matcher was given None and returned its
\* base explanation
C15_WitnessMismatched ==
    /\ Analyzed
    /\ mismatched_parenthesis_pre(last.kw.message)
    /\ last.ext.look_for_mismatched_brackets = None
    /\ last.result.t = "str"
    /\ last.result = WithoutBrackets

\* the line has no Python keyword and no __debug__ among its tokens
NoKeywordToken(line) ==
    \A i \in 1..Len(collect_tokens(line)) :
        /\ collect_tokens(line)[i].string \notin kwlist
        /\ collect_tokens(line)[i].string /= "__debug__"

\* the request just served meets a matcher's message test and lacks what the
\* matcher reads from the fault record
MalformedRecord ==
    \/ /\ assign_to_literal_pre(last.kw.message) \/ assign_to_function_call_pre(last.kw.message)
       /\ str_count(last.kw.line, "=") = 0
    \/ /\ assign_to_keyword_pre(last.kw.message)
       /\ NoKeywordToken(last.kw.line)
    \/ /\ unmatched_parenthesis_pre(last.kw.message)
       /\ last.kw.linenumber = None

\* C17: when a matcher's message test holds and the line has no "=" (assign
\* to literal, assign to function call), no keyword token (assign to
\* keyword) or the line number is absent (unmatched bracket), the matcher
\* returns an explanation or None and never raises.
C17_MalformedRecordDegrades ==
    (Analyzed /\ MalformedRecord) =>
        /\ ~IsRaise(last.result)
        /\ IsNone(last.result) \/ last.result.t = "str"

\* "can't assign to literal" was analyzed on a line without "=": IndexError
C17_Witness ==
    /\ Analyzed
    /\ last.kw.message = "can't assign to literal"
    /\ last.kw.line = "del f"
    /\ last.result = Raise("IndexError")

\* "can't assign to function call" on a line without "=": IndexError
C17_WitnessCall ==
    /\ Analyzed
    /\ last.kw.message = "can't assign to function call"
    /\ last.kw.line = "del f(a)"
    /\ last.result = Raise("IndexError")

\* "can't assign to keyword" on a line without a keyword: FriendlyException
C17_WitnessKeyword ==
    /\ Analyzed
    /\ last.kw.message = "can't assign to keyword"
    /\ last.kw.line = "x = 1"
    /\ last.result = Raise("FriendlyException")

\* "unmatched ')'" without a line number: an explanation, citing line None
C17_WitnessUnmatched ==
    /\ Analyzed
    /\ last.kw.message = "unmatched ')'"
    /\ last.kw.linenumber = None
    /\ last.result.t = "str"
    /\ str_contains("on line None does not match anything.", last.result.s)

\* the three texts the import handlers write into info["suggest"]
SuggestIsCircular(info) == info["suggest"] = Str("You have a circular import.\n")

SuggestIsOne(info) == str_startswith(info["suggest"].s, "Did you mean " \o BQ)

SuggestIsSeveral(info) ==
    str_startswith(info["suggest"].s, "Did you mean one of the following: ")

\* C20: during one call of import_error.get_cause info["suggest"] is
\* assigned at most once, whether a circular import is found or one, several
\* or no similar names are: the call that leaves a suggestion has assigned it
\* once, and the call that leaves none has assigned nothing.
C20_SuggestWrittenOnce ==
    ImportAnswered =>
        /\ last.result.suggest_writes \in {0, 1}
        /\ last.result.suggest_writes = 1 <=> "suggest" \in DOMAIN last.result.info
        /\ last.result.suggest_writes = 0 => last.result.info = last.info
        /\ "suggest" \in DOMAIN last.result.info =>
               \/ SuggestIsCircular(last.result.info)
               \/ SuggestIsOne(last.result.info)
               \/ SuggestIsSeveral(last.result.info)

\* a circular import was found while the module is loaded and holds similar
\* names: the hint on the circular import is the only assignment
C20_Witness ==
    /\ ImportAnswered
    /\ "simulated_python_traceback" \in DOMAIN last.info
    /\ last.info["simulated_python_traceback"] = Str(TracebackCircular)
    /\ last.env = Env(None, {"bar"}, <<"food", "fo'o", "Foo">>)
    /\ last.result.suggest_writes = 1
    /\ SuggestIsCircular(last.result.info)

\* one similar name: one assignment
C20_WitnessOne ==
    /\ ImportAnswered
    /\ Len(last.env.similar) = 1
    /\ last.result.suggest_writes = 1
    /\ SuggestIsOne(last.result.info)

\* several similar names: one assignment
C20_WitnessSeveral ==
    /\ ImportAnswered
    /\ Len(last.env.similar) = 3
    /\ last.result.suggest_writes = 1
    /\ SuggestIsSeveral(last.result.info)

\* no similar name and no circular import: no assignment
C20_WitnessNone ==
    /\ PlainImportFault
    /\ Len(last.env.similar) = 0
    /\ last.result.suggest_writes = 0
    /\ last.result.ret.t = "str"

\* a push has been served
PushServed == pushed /= Idle

\* explain_traceback was called during the push just served, and failed
ExplanationFailed ==
    /\ PushServed
    /\ pushed.answer.explain \notin {"ok", "-"} \cup NotException

\* C16: when friendly_traceback.explain_traceback raises while the console
\* explains a fault, at compile time in runsource or at run time in runcode,
\* the exception does not leave push, the minimal diagnostic is written, and
\* the console is ready for the next command.
C16_ExplanationFaultIsContained ==
    ExplanationFailed =>
        /\ ~IsRaise(pushed.ret)
        /\ pushed.ret = PyBool(FALSE)
        /\ \E i \in 1..Len(pushed.output) :
               pushed.output[i] = "Friendly-traceback Internal Error"
        /\ buffer = <<>>
        /\ ~exited

\* the command did not compile and explain_traceback failed: its exception
\* left push, nothing was written, and the line stays in the buffer
C16_Witness ==
    /\ ExplanationFailed
    /\ pushed.answer.compile = "SyntaxError"
    /\ pushed.ret = Raise("IndexError")
    /\ pushed.output = <<>>
    /\ buffer = Append(pushed.buffer, pushed.line)
    /\ counter = pushed.counter

\* the command raised at run time and explain_traceback failed: the
\* diagnostic was written and push returned False
C16_WitnessRuntime ==
    /\ ExplanationFailed
    /\ pushed.answer.compile = "code"
    /\ pushed.ret = PyBool(FALSE)
    /\ pushed.output[1] = "Friendly-traceback Internal Error"
    /\ buffer = <<>>

\* C18: push appends the line to the buffer and ends as runsource on the
\* joined buffer ends; when that result is False the buffer is empty after
\* push, and when it is True the buffer is the previous buffer followed by
\* the new line.
C18_PushBuffer ==
    PushServed =>
        /\ pushed.source = str_join("\n", Append(pushed.buffer, pushed.line))
        /\ pushed.ret = runsource(pushed.source, pushed.filename, pushed.answer).ret
        /\ pushed.ret = PyBool(FALSE) => buffer = <<>>
        /\ pushed.ret = PyBool(TRUE) => buffer = Append(pushed.buffer, pushed.line)
        /\ cache[pushed.filename] = pushed.source

\* a second line was pushed to an incomplete command, which is incomplete
\* still: the buffer holds both lines
C18_Witness ==
    /\ PushServed
    /\ Len(pushed.buffer) = 1
    /\ pushed.ret = PyBool(TRUE)
    /\ buffer = <<pushed.buffer[1], pushed.line>>
    /\ pushed.source = pushed.buffer[1] \o "\n" \o pushed.line

\* exec raised and explain_traceback raised a BaseExceptionGroup, which
\* "except Exception" lets through: push ends with it and the buffer keeps
\* the line
C18_WitnessLeft ==
    /\ PushServed
    /\ pushed.answer.explain = "BaseExceptionGroup"
    /\ pushed.ret = Raise("BaseExceptionGroup")
    /\ buffer = Append(pushed.buffer, pushed.line)
    /\ counter = pushed.counter

\* a line completed a command of two lines: the buffer is empty again
C18_WitnessReset ==
    /\ PushServed
    /\ Len(pushed.buffer) = 1
    /\ pushed.ret = PyBool(FALSE)
    /\ buffer = <<>>

\* the pushes whose source compiled to a code object, in order
Valid == {i \in 1..Len(samples) : samples[i].compile = "code"}

\* C19: each valid code sample is saved under its own fake filename, the
\* valid samples being numbered 1, 2, ... in order; after a push whose
\* sample was not valid (it did not compile) the counter is as before, so
\* that the next push uses the same filename.
C19_ValidSamplesNumbered ==
    /\ \A i \in Valid :
           samples[i].filename = fake_filename(Cardinality({j \in Valid : j <= i}))
    /\ (PushServed /\ pushed.answer.compile = "SyntaxError") =>
           /\ counter = pushed.counter
           /\ fake_filename(counter) = pushed.filename

\* a command that did not compile was explained; push returned False and
\* the counter moved on to the next filename
C19_Witness ==
    /\ PushServed
    /\ pushed.answer = Answer("SyntaxError", "-", "ok")
    /\ pushed.ret = PyBool(FALSE)
    /\ counter = pushed.counter + 1
    /\ pushed.filename = "<friendly-console:1>"
    /\ fake_filename(counter) = "<friendly-console:2>"

\* an incomplete command was pushed: the counter is as before
C19_WitnessIncomplete ==
    /\ PushServed
    /\ pushed.answer.compile = "None"
    /\ counter = pushed.counter
    /\ buffer /= <<>>

\* the three shapes of the message of an ImportError, newest first
PartiallyInitialized(message) ==
    str_startswith(message, "cannot import name 'foo' from partially initialized module 'bar'")

NameFromModule(message) == str_startswith(message, "cannot import name 'foo' from 'bar'")

NameAlone(message) == message = "cannot import name 'foo'"

\* C21: import_error.get_cause uses the first of its three patterns that
\* matches: a message with "partially initialized module" is answered by
\* cannot_import_name_from with the name and the module of the message (and
\* without the hint when the message speaks of a circular import itself),
\* "cannot import name N from M" likewise with the hint, a message with the
\* name alone by cannot_import_name, and any other message by the fixed
\* text "No information is known about this exception."
C21_FirstPatternWins ==
    ImportAnswered =>
        /\ PartiallyInitialized(last.value.str) =>
               last.result = cannot_import_name_from(
                                 "foo", "bar", last.info, "frame",
                                 ~str_contains("circular import", last.value.str),
                                 last.env)
        /\ NameFromModule(last.value.str) =>
               last.result = cannot_import_name_from("foo", "bar", last.info, "frame",
                                                     TRUE, last.env)
        /\ NameAlone(last.value.str) =>
               last.result = cannot_import_name("foo", last.info, "frame", last.env)
        /\ (~PartiallyInitialized(last.value.str) /\ ~NameFromModule(last.value.str)
                /\ ~NameAlone(last.value.str)) =>
               /\ last.result.ret =
                      Str("No information is known about this exception.\n"
                          \o "Please report this example to\n"
                          \o "https://github.com/aroberge/friendly-traceback/issues\n")
               /\ last.result.info = last.info

\* a message with the marker and Python's own hint on a circular import was
\* answered by the first branch: foo and bar are named, and the explanation
\* of a circular import is given since the traceback shows none
C21_Witness ==
    /\ ImportAnswered
    /\ PartiallyInitialized(last.value.str)
    /\ str_contains("circular import", last.value.str)
    /\ last.result.ret.t = "str"
    /\ str_contains("is " \o BQ \o "foo" \o BQ, last.result.ret.s)
    /\ str_contains("is " \o BQ \o "bar" \o BQ, last.result.ret.s)
    /\ str_contains("Python indicated that you have a circular import.", last.result.ret.s)

\* "cannot import name 'foo' from 'bar'" was answered by the second branch
C21_WitnessSecond ==
    /\ ImportAnswered
    /\ NameFromModule(last.value.str)
    /\ last.result.ret.t = "str"
    /\ str_contains("is " \o BQ \o "bar" \o BQ, last.result.ret.s)

\* "cannot import name 'foo'" was answered by the third branch, on a bad
\* line that does not name the module
C21_WitnessThird ==
    /\ ImportAnswered
    /\ NameAlone(last.value.str)
    /\ last.result.ret =
           Str("The object that could not be imported is " \o BQ \o "foo" \o BQ \o ".\n")

\* a message of another shape was answered by the fixed text
C21_WitnessUnknown ==
    /\ ImportAnswered
    /\ last.value.str = "DLL load failed"
    /\ str_startswith(last.result.ret.s, "No information is known")

\* "cannot import name 'foo' from 'bar'" with a traceback that shows no
\* circular pair, and no similar name to suggest
NoCircularPair ==
    /\ ImportAnswered
    /\ NameFromModule(last.value.str)
    /\ "simulated_python_traceback" \in DOMAIN last.info
    /\ TracebackOf(last.info) \in {TracebackChain, TracebackNoImport}
    /\ "bar" \notin last.env.sys_modules \/ Len(last.env.similar) = 0

\* C22: when the simulated traceback yields no circular pair, also when it
\* holds no import statement at all, the handler returns the plain
\* explanation naming the object and the module and does not fail.
C22_NoPairFallsBack ==
    NoCircularPair =>
        /\ ~IsRaise(last.result.ret)
        /\ last.result.ret =
               Str("The object that could not be imported is " \o BQ \o "foo" \o BQ
                   \o ".\nThe module or package where it was \n"
                   \o "expected to be found is " \o BQ \o "bar" \o BQ \o ".\n")

\* the traceback holds no import statement: the call ended with IndexError
C22_Witness ==
    /\ NoCircularPair
    /\ TracebackOf(last.info) = TracebackNoImport
    /\ last.result.ret = Raise("IndexError")
    /\ last.result.info = last.info

\* the traceback holds imports, none of them circular: the plain explanation
C22_WitnessChain ==
    /\ NoCircularPair
    /\ TracebackOf(last.info) = TracebackChain
    /\ last.result.ret.t = "str"
    /\ str_startswith(last.result.ret.s, "The object that could not be imported is ")

\* the constants among the reserved words
Constants == {"None", "True", "False", "__debug__"}

\* the reserved words a line assigns to: those just left of a "="
AssignedTo(line) ==
    {collect_tokens(line)[i].string : i \in
        {j \in 1..(Len(collect_tokens(line)) - 1) :
            /\ collect_tokens(line)[j + 1].string = "="
            /\ collect_tokens(line)[j].string \in kwlist \cup {"__debug__"}}}

\* the wording for a constant, and the wording for any other keyword
ConstantWording(word) ==
    Str(word \o " is a constant in Python; you cannot assign it a value.\n\n")

KeywordWording(word) ==
    Str("You were trying to assign a value to the Python keyword '" \o word
        \o "'.\nThis is not allowed.\n\n")

\* C23: for every line that triggers one of the messages of the
\* assign-to-keyword matcher and assigns to one reserved word, the wording
\* goes by the kind of that word: "is a constant ... cannot assign it a
\* value" for None, True, False and __debug__, "assign a value to the Python
\* keyword" for any other keyword.
C23_WordingByKind ==
    (/\ Analyzed
     /\ assign_to_keyword_pre(last.kw.message)
     /\ Cardinality(AssignedTo(last.kw.line)) = 1) =>
        \A word \in AssignedTo(last.kw.line) :
            /\ word \in Constants => last.result = ConstantWording(word)
            /\ word \notin Constants => last.result = KeywordWording(word)

\* "cannot assign to None" on the line "if x: None = 1": the matcher took
\* the first keyword of the line and answered with the wording for "if"
C23_Witness ==
    /\ Analyzed
    /\ last.kw.message = "cannot assign to None"
    /\ last.kw.line = "if x: None = 1"
    /\ AssignedTo(last.kw.line) = {"None"}
    /\ last.result = KeywordWording("if")

\* "cannot assign to None" on the line "None = 1": the wording for a constant
C23_WitnessConstant ==
    /\ Analyzed
    /\ last.kw.message = "cannot assign to None"
    /\ last.kw.line = "None = 1"
    /\ last.result = ConstantWording("None")

\* a keyword that is no constant is assigned to: the wording for a keyword
C23_WitnessKeyword ==
    /\ Analyzed
    /\ last.kw.message = "can't assign to keyword"
    /\ last.kw.line = "a = pass = 2"
    /\ last.result = KeywordWording("pass")

\* formatter.explain_traceback has been called
Explained == last.op = "formatter.explain_traceback"

\* where each part of the report starts, 0 when the part is missing
GenericAt(report) == str_find(report, "    Python exception: ", 1)

CauseAt(report) == str_find(report, "    Likely cause:", 1)

LastCallAt(report) == str_find(report, "    Execution stopped on line ", 1)

OriginAt(report) == str_find(report, "    Exception raised on line ", 1)

\* C24: the report of formatter.explain_traceback holds the generic
\* explanation, then the likely cause, then the fault site, then the origin;
\* the generic explanation and the fault site are always there, the origin
\* exactly when the call chain has more than one record, and the likely
\* cause only when a cause is known, never when the kind has no handler or
\* the handler returned None.
C24_ReportParts ==
    Explained =>
        /\ last.result.t = "str"
        /\ GenericAt(last.result.s) > 0
        /\ LastCallAt(last.result.s) > GenericAt(last.result.s)
        /\ OriginAt(last.result.s) > 0 <=> Len(last.records) > 1
        /\ OriginAt(last.result.s) > 0 => OriginAt(last.result.s) > LastCallAt(last.result.s)
        /\ CauseAt(last.result.s) > 0 => last.handler.t = "str"
        /\ CauseAt(last.result.s) > 0 =>
               /\ CauseAt(last.result.s) > GenericAt(last.result.s)
               /\ CauseAt(last.result.s) < LastCallAt(last.result.s)

\* the handler of the kind returned None, and the report holds a likely
\* cause that reads None
C24_Witness ==
    /\ Explained
    /\ last.handler = None
    /\ last.records = <<RecordCaller, RecordOrigin>>
    /\ last.result.t = "str"
    /\ str_contains("    Likely cause:\nNone\n", last.result.s)
    /\ CauseAt(last.result.s) < LastCallAt(last.result.s)

\* a known cause and a chain of three records: the four parts, in order
C24_WitnessFour ==
    /\ Explained
    /\ last.handler.t = "str"
    /\ Len(last.records) = 3
    /\ last.result.t = "str"
    /\ 0 < GenericAt(last.result.s)
    /\ GenericAt(last.result.s) < CauseAt(last.result.s)
    /\ CauseAt(last.result.s) < LastCallAt(last.result.s)
    /\ LastCallAt(last.result.s) < OriginAt(last.result.s)
    /\ str_contains("line 48 of file 'tb_common.py'", last.result.s)
    /\ str_contains("line 8 of file 'raise_name_error.py'", last.result.s)

\* no handler for the kind and one record: two parts
C24_WitnessTwo ==
    /\ Explained
    /\ last.handler = Absent
    /\ Len(last.records) = 1
    /\ last.result.t = "str"
    /\ CauseAt(last.result.s) = 0
    /\ OriginAt(last.result.s) = 0
    /\ LastCallAt(last.result.s) > GenericAt(last.result.s)

\* runcode has gone through to its checks
Checked == checked /= Idle /\ checked.ends

\* the names warned about by the check just made
Warned == Names(checked.changed)

\* C25: the console warns once per redefinition of a builtin: a name that
\* check_for_builtins_changes warns about is bound in locals to a value
\* that differs from the saved one, that value is the saved one afterwards,
\* no name warned about earlier is warned about again while its binding in
\* locals has not changed, and no name of the form __x__ is warned about
C25_WarnsOncePerRedefinition ==
    Checked =>
        \A name \in Warned :
            /\ name \in DOMAIN locals
            /\ checked.saved_builtins[name] /= locals[name]
            /\ saved_builtins[name] = locals[name]
            /\ name \notin checked.quiet
            /\ ~is_dunder(name)

\* len is bound to float("nan") and has been warned about; the code run
\* next binds nothing, and len is warned about again
C25_Witness ==
    /\ Checked
    /\ checked.effect = NoEffect
    /\ "len" \in checked.quiet
    /\ is_nan(locals["len"])
    /\ checked.locals["len"] = locals["len"]
    /\ "len" \in Warned
    /\ Len(checked.output) = 2

\* len has been redefined and warned about; a later check, the binding
\* being the same, is silent
C25_WitnessSilent ==
    /\ Checked
    /\ "len" \in checked.quiet
    /\ "len" \in DOMAIN locals
    /\ locals["len"] /= SavedBuiltins["len"]
    /\ saved_builtins["len"] = locals["len"]
    /\ Warned = {}
    /\ checked.output = <<>>

\* the check warns about len, just redefined, and saves the new value
C25_WitnessWarned ==
    /\ Checked
    /\ Warned = {"len"}
    /\ checked.effect = Effect("assign", "len", "1")
    /\ saved_builtins["len"] = "1"
    /\ Len(checked.output) = 2

\* len is redefined a second time, after a first warning: a second warning
C25_WitnessAgain ==
    /\ Checked
    /\ "len" \in Warned
    /\ is_nan(checked.saved_builtins["len"])
    /\ locals["len"] = "1"

\* __name__ is bound to a value that is not the saved one, and the check is
\* silent
C25_WitnessDunder ==
    /\ Checked
    /\ checked.effect = Effect("assign", "__name__", "__main__")
    /\ locals["__name__"] /= saved_builtins["__name__"]
    /\ Warned = {}
====
